---- MODULE Spec2Model ----
(***************************************************************************)
(* State-machine model of the AIDM rules/state engine: the persisted game  *)
(* session (app/engine/session.py), the narrative turn                     *)
(* (app/engine/ai_dm.py, process_turn), the combat round                   *)
(* (app/engine/fight_agent.py, process_fight_round) and the attack         *)
(* resolver and dice roller it calls (app/engine/combat.py).               *)
(*                                                                         *)
(* Two specifications share the variables:                                 *)
(*   Spec      - every request handler runs alone, from its load_session   *)
(*               to its save_session (one action per handler);             *)
(*   SpecSteps - handlers run in worker threads with no lock: load,        *)
(*               compute, open-for-write and write are separate steps      *)
(*               that interleave, and the process may crash between them.  *)
(***************************************************************************)
EXTENDS Integers, Sequences, FiniteSets, TLC

\* ------------------------------------------------------------------------
\* Bounds of the model (not program constants)
\* ------------------------------------------------------------------------

\* number of requests (POST .../action, .../query and .../fight) handled
MaxRequests == 3

\* length of the dice expressions that are enumerated
MaxExprLen == 4

\* number of calls of ledger operations
MaxLedgerCalls == 3

\* number of scene records in a batch
MaxBatch == 2

\* ------------------------------------------------------------------------
\* Null values of the JSON documents
\* ------------------------------------------------------------------------

\* a JSON null / Python None
None == "None"

\* a key that is absent from a dict (dict.get then yields its default)
Missing == "Missing"

\* ------------------------------------------------------------------------
\* Story data (data/stories/<id>/story.json): read-only input of the engine
\* ------------------------------------------------------------------------

\* the player character of the story; attacks come from the character sheet
Characters ==
  << [ name |-> "Thorin", hp_max |-> 12, ac |-> 15,
       attacks |-> << [name |-> "Axe",    bonus |-> 5, damage |-> "1d4+14"],
                      [name |-> "Curse",  bonus |-> 5, damage |-> "1d4-5"],
                      [name |-> "Broken", bonus |-> 5, damage |-> "abc"] >> ] >>

\* enemy_stats.get("hp_max", 30) and enemy_stats.get("ac", 12): the values
\* used when the stats of a monster lack the key (written 0 in the data)
DefaultEnemyMaxHp == 30

DefaultEnemyAc == 12

\* the monster of the combat node: its stats give no armor class and its
\* first action has no attack numbers
OgreStats ==
  [ hp_max |-> 30, ac |-> 0,
    actions |-> << [name |-> "Multiattack", has_bonus |-> FALSE, attack_bonus |-> 0,
                    damage_dice |-> None],
                   [name |-> "Club", has_bonus |-> TRUE, attack_bonus |-> 6,
                    damage_dice |-> "6"],
                   [name |-> "Rock", has_bonus |-> TRUE, attack_bonus |-> 4,
                    damage_dice |-> "6"],
                   [name |-> "Hex", has_bonus |-> TRUE, attack_bonus |-> 6,
                    damage_dice |-> "1d4-5"] >> ]

\* a monster whose stats give no hit points and whose only action lacks
\* damage dice
WispStats ==
  [ hp_max |-> 0, ac |-> 13,
    actions |-> << [name |-> "Drain", has_bonus |-> TRUE, attack_bonus |-> 3,
                    damage_dice |-> None] >> ]

\* entities without stats carry this placeholder
NoStats == [ hp_max |-> 0, ac |-> 0, actions |-> << >> ]

\* the scene graph: node id -> scene record
StoryNodes ==
  [ n \in {"n1", "n2", "n3"} |->
      CASE n = "n1" ->
             [ title |-> "Tavern", type |-> "roleplay", read_aloud |-> "A warm room.",
               min_turns |-> 2,
               entities |-> << [name |-> "Innkeeper", type |-> "npc", stats |-> NoStats] >>,
               edges |-> << "n2", "n3", "ghost" >> ]
        [] n = "n2" ->
             [ title |-> "Cave", type |-> "combat", read_aloud |-> "An ogre roars.",
               min_turns |-> 1,
               entities |-> << [name |-> "Bat", type |-> "object", stats |-> NoStats],
                               [name |-> "Ogre", type |-> "monster", stats |-> OgreStats] >>,
               edges |-> << "n3" >> ]
        [] n = "n3" ->
             [ title |-> None, type |-> "destination", read_aloud |-> None,
               min_turns |-> 1,
               entities |-> << [name |-> "Wisp", type |-> "monster", stats |-> WispStats] >>,
               edges |-> << >> ] ]

\* ids of the story's nodes, in the order of the JSON object
NodeOrder == << "n1", "n2", "n3" >>

\* the stories on disk: "cave" holds the scene graph above, "blank" was
\* generated from an empty scene list ("nodes": {}); the character was
\* added to both
Stories == { "cave", "blank" }

\* story_data["nodes"] of a story
StoryNodesOf(story_id) ==
  IF story_id = "cave" THEN StoryNodes ELSE [ n \in {} |-> NoStats ]

\* list(nodes.keys()) of a story
NodeOrderOf(story_id) == IF story_id = "cave" THEN NodeOrder ELSE << >>

\* names under which enemy damage can be recorded
EnemyNames == {"Ogre", "Wisp"}

\* ------------------------------------------------------------------------
\* Dice roller (app/engine/combat.py, roll_dice)
\* ------------------------------------------------------------------------

\* a dice term "XdY" and a flat term, as DICE_TERM_RE captures them
DiceTerm(sign, num, sides) ==
  [ dice |-> TRUE, sign |-> sign, num |-> num, sides |-> sides, flat |-> 0 ]

FlatTerm(sign, flat) ==
  [ dice |-> FALSE, sign |-> sign, num |-> 0, sides |-> 0, flat |-> flat ]

\* A dice expression is a text, modelled as the sequence of its characters.

IsDigit(c) == c \in {"0", "1", "2", "3", "4", "5", "6", "7", "8", "9"}

\* int() of one digit
DigitValue(c) ==
  CASE c = "0" -> 0 [] c = "1" -> 1 [] c = "2" -> 2 [] c = "3" -> 3 [] c = "4" -> 4
    [] c = "5" -> 5 [] c = "6" -> 6 [] c = "7" -> 7 [] c = "8" -> 8 [] c = "9" -> 9

\* str() of one digit
DigitChar(d) ==
  CASE d = 0 -> "0" [] d = 1 -> "1" [] d = 2 -> "2" [] d = 3 -> "3" [] d = 4 -> "4"
    [] d = 5 -> "5" [] d = 6 -> "6" [] d = 7 -> "7" [] d = 8 -> "8" [] d = 9 -> "9"

\* whitespace, as \s matches it
IsSpace(c) == c = " "

\* the index of the first character at or after i that is no whitespace
RECURSIVE SkipSpaces(_, _)
SkipSpaces(s, i) ==
  IF i <= Len(s) /\ IsSpace(s[i]) THEN SkipSpaces(s, i + 1) ELSE i

\* the number of digits that start at index i (a greedy \d*)
RECURSIVE DigitsFrom(_, _)
DigitsFrom(s, i) ==
  IF i <= Len(s) /\ IsDigit(s[i]) THEN 1 + DigitsFrom(s, i + 1) ELSE 0

\* int() of the n digits that start at index i
RECURSIVE NumberAt(_, _, _)
NumberAt(s, i, n) ==
  IF n = 0 THEN 0
  ELSE NumberAt(s, i, n - 1) * 10 + DigitValue(s[i + n - 1])

\* str(n) of an integer
RECURSIVE FormatNat(_)
FormatNat(n) ==
  IF n < 10 THEN << DigitChar(n) >>
  ELSE FormatNat(n \div 10) \o << DigitChar(n % 10) >>

FormatInt(n) == IF n < 0 THEN << "-" >> \o FormatNat(0 - n) ELSE FormatNat(n)

\* expr.strip()
RECURSIVE Strip(_)
Strip(s) ==
  IF Len(s) > 0 /\ IsSpace(s[1]) THEN Strip(Tail(s))
  ELSE IF Len(s) > 0 /\ IsSpace(s[Len(s)]) THEN Strip(SubSeq(s, 1, Len(s) - 1))
  ELSE s

\* re.sub(r"\s+", "+", s): every run of whitespace becomes one "+"
RECURSIVE PlusForSpaces(_)
PlusForSpaces(s) ==
  IF Len(s) = 0 THEN << >>
  ELSE IF IsSpace(s[1])
    THEN << "+" >> \o PlusForSpaces(SubSeq(s, SkipSpaces(s, 1), Len(s)))
    ELSE << s[1] >> \o PlusForSpaces(Tail(s))

\* normalized = re.sub(r"\s+", "+", expr.strip())
Normalize(expr) == PlusForSpaces(Strip(expr))

\* DICE_TERM_RE tried at index i: an optional sign, optional whitespace,
\* then [num]d<sides> or, failing that, an integer.  (When the body fails
\* after a sign, the retry without the sign meets the sign and fails too.)
MatchAt(s, i) ==
  LET has_sign == i <= Len(s) /\ s[i] \in {"+", "-"}
      sign == IF has_sign /\ s[i] = "-" THEN -1 ELSE 1
      j  == SkipSpaces(s, IF has_sign THEN i + 1 ELSE i)
      d1 == DigitsFrom(s, j)
      k  == j + d1
      d2 == IF k <= Len(s) /\ s[k] \in {"d", "D"} THEN DigitsFrom(s, k + 1) ELSE 0
  IN  IF d2 > 0
        THEN [ matched |-> TRUE, next |-> k + 1 + d2,
               term |-> DiceTerm(sign, IF d1 = 0 THEN 1 ELSE NumberAt(s, j, d1),
                                 NumberAt(s, k + 1, d2)) ]
      ELSE IF d1 > 0
        THEN [ matched |-> TRUE, next |-> j + d1,
               term |-> FlatTerm(sign, NumberAt(s, j, d1)) ]
      ELSE [ matched |-> FALSE, next |-> i + 1, term |-> FlatTerm(1, 0) ]

\* Continue(s, m): the matches from index m.next on, after the match m if
\* it is one
RECURSIVE FindIter(_, _)
Continue(s, m) ==
  IF m.matched THEN << m.term >> \o FindIter(s, m.next) ELSE FindIter(s, m.next)

\* DICE_TERM_RE.finditer(s) from index i on: the matches in order; text
\* that matches nothing is passed over
FindIter(s, i) == IF i > Len(s) THEN << >> ELSE Continue(s, MatchAt(s, i))

\* the terms roll_dice finds in an expression
ParseTerms(expr) == FindIter(Normalize(expr), 1)

\* the characters of the damage expressions that occur in the story data
Text(expr) ==
  CASE expr = "1d4+14" -> << "1", "d", "4", "+", "1", "4" >>
    [] expr = "1d4-5"  -> << "1", "d", "4", "-", "5" >>
    [] expr = "6"      -> << "6" >>
    [] expr = "abc"    -> << "a", "b", "c" >>
    [] expr = "2d6+3"  -> << "2", "d", "6", "+", "3" >>
    [] OTHER           -> << >>

\* the damage expressions of the story data
StoryExpressions == { "1d4+14", "1d4-5", "6", "abc" }

\* the terms of each of them, parsed once
StoryTerms == [ expr \in StoryExpressions |-> ParseTerms(Text(expr)) ]

\* the terms of a damage expression of the story data
DiceTerms(expr) ==
  IF expr \in StoryExpressions THEN StoryTerms[expr] ELSE ParseTerms(Text(expr))

\* the text of the hit roll, f"1d20+{attack_bonus}"
HitText(attack_bonus) == << "1", "d", "2", "0", "+" >> \o FormatInt(attack_bonus)

\* the attack bonuses explored
Bonuses == -3 .. 10

\* the terms of the hit roll of each of them, parsed once
BonusTerms == [ attack_bonus \in Bonuses |-> ParseTerms(HitText(attack_bonus)) ]

\* the terms of the hit roll; for a negative bonus the text is "1d20+-2"
\* and the second match is "-2"
HitTerms(attack_bonus) ==
  IF attack_bonus \in Bonuses THEN BonusTerms[attack_bonus]
                              ELSE ParseTerms(HitText(attack_bonus))

\* outcomes of rng.randint(1, sides) that are explored: lowest and highest
\* face, and for the d20 also a middle face (with it the Axe and the Club
\* hit, the Rock misses)
DieFaces(sides) == IF sides = 20 THEN {1, 10, 20} ELSE {1, sides}

\* the outcomes of one term that are explored: every die shows the same
\* face, or the dice alternate between 1 and the highest face; none for a
\* flat term
TermRolls(t) ==
  IF t.dice
    THEN { [ k \in 1..t.num |-> f ] : f \in DieFaces(t.sides) }
           \cup { [ k \in 1..t.num |-> IF k % 2 = 1 THEN 1 ELSE t.sides ] }
    ELSE { << >> }

\* every way the dice of an expression can fall: one entry per term
AllRolls(terms) ==
  { rs \in [1..Len(terms) -> UNION { TermRolls(terms[i]) : i \in 1..Len(terms) }] :
      \A i \in 1..Len(terms) : rs[i] \in TermRolls(terms[i]) }

RECURSIVE SumSeq(_)
SumSeq(s) == IF Len(s) = 0 THEN 0 ELSE Head(s) + SumSeq(Tail(s))

\* the subtotal of a term with its sign left out
SubtotalUnsigned(t, rolls) == IF t.dice THEN SumSeq(rolls) ELSE t.flat

\* subtotal of one term: sign * flat, or sign * sum(rolls)
Subtotal(t, rolls) == IF t.dice THEN t.sign * SumSeq(rolls) ELSE t.sign * t.flat

\* rng.randint(1, sides) raises ValueError when sides is 0
RollRaises(terms) ==
  \E i \in 1..Len(terms) : terms[i].dice /\ terms[i].num > 0 /\ terms[i].sides < 1

\* the test of the term list left out: an expression without a term is
\* answered with total 0
AnyTerms(terms) == TRUE

\* if not terms: raise ValueError
HasTerms(terms) == Len(terms) > 0

\* roll_dice on the matched terms, rs holding the outcomes of each term
RollTerms(terms, rs) ==
  [ ok    |-> HasTerms(terms) /\ ~RollRaises(terms),
    total |-> SumSeq([i \in 1..Len(terms) |-> Subtotal(terms[i], rs[i])]),
    rolls |-> rs,
    terms |-> [ i \in 1..Len(terms) |->
                  [ sign |-> terms[i].sign, dice |-> terms[i].dice,
                    num |-> terms[i].num, sides |-> terms[i].sides,
                    flat |-> terms[i].flat, rolls |-> rs[i],
                    subtotal |-> Subtotal(terms[i], rs[i]) ] ] ]

\* roll_dice on a damage expression of the story data
roll_dice(expr, rs) == RollTerms(DiceTerms(expr), rs)

\* roll_dice on the text of an expression
RollText(expr, rs) ==
  IF Normalize(expr) = << >>
    THEN [ ok |-> FALSE, total |-> 0, rolls |-> << >>, terms |-> << >> ]
    ELSE RollTerms(ParseTerms(expr), rs)

\* ------------------------------------------------------------------------
\* Attack resolver (app/engine/combat.py, resolve_attack)
\* ------------------------------------------------------------------------

\* the to-hit decision without the natural 1: only the natural 20 is
\* treated apart
HitOutcomeNoFumble(hit_roll, target_ac) ==
  LET total_hit == hit_roll.total
      d20_val   == hit_roll.rolls[1][1]
      is_crit   == d20_val = 20
  IN  [ is_crit |-> is_crit,
        is_hit  |-> IF is_crit THEN TRUE ELSE total_hit >= target_ac ]

\* the to-hit decision of resolve_attack on the hit roll: a natural 20
\* always hits, a natural 1 always misses, otherwise the total is compared
\* with the armor class
HitOutcome(hit_roll, target_ac) ==
  LET total_hit == hit_roll.total
      d20_val   == hit_roll.rolls[1][1]
      is_crit   == d20_val = 20
      is_fumble == d20_val = 1
  IN  [ is_crit |-> is_crit,
        is_hit  |-> IF is_crit THEN TRUE
                    ELSE IF is_fumble THEN FALSE
                    ELSE total_hit >= target_ac ]

\* the hit roll f"1d20+{attack_bonus}" with the d20 showing d20
ToHit(attack_bonus, target_ac, d20) ==
  HitOutcome(RollTerms(HitTerms(attack_bonus), << << d20 >>, << >> >>), target_ac)

\* the damage part with the doubling of a critical hit left out
AttackResultNoDoubling(hit, dmg_roll) ==
  [ ok           |-> hit.is_hit => dmg_roll.ok,
    is_hit       |-> hit.is_hit,
    is_crit      |-> hit.is_crit,
    damage_dealt |-> IF ~hit.is_hit THEN 0 ELSE dmg_roll.total,
    log          |-> IF hit.is_crit THEN "CRITICAL HIT"
                     ELSE IF hit.is_hit THEN "HIT" ELSE "MISS" ]

\* the damage part of resolve_attack: the damage expression is rolled only
\* on a hit (a parse error then raises) and doubled on a critical hit
AttackResult(hit, dmg_roll) ==
  LET damage_total == IF ~hit.is_hit THEN 0
                      ELSE IF hit.is_crit THEN dmg_roll.total * 2
                      ELSE dmg_roll.total
  IN  [ ok           |-> hit.is_hit => dmg_roll.ok,
        is_hit       |-> hit.is_hit,
        is_crit      |-> hit.is_crit,
        damage_dealt |-> damage_total,
        log          |-> IF hit.is_crit THEN "CRITICAL HIT"
                         ELSE IF hit.is_hit THEN "HIT" ELSE "MISS" ]

\* d20 is the face of the hit roll, rs the fall of the damage dice
resolve_attack(attack_bonus, target_ac, damage_dice, d20, rs) ==
  AttackResult(ToHit(attack_bonus, target_ac, d20), roll_dice(damage_dice, rs))

\* ------------------------------------------------------------------------
\* The combat ledger: state/combat_state.json and the operations on it
\* ------------------------------------------------------------------------

ActorIds == { "ogre", "wisp" }

\* an id the document holds no record for
NoActor ==
  [ present |-> FALSE, name |-> None, max_hp |-> 0, hp |-> 0, temp_hp |-> 0,
    conditions |-> << >>, armor_class |-> << >>, extra |-> None ]

\* {"actors": {}}
NoActors == [ actor_id \in ActorIds |-> NoActor ]

\* the file is missing
AbsentState == [ status |-> "absent", actors |-> NoActors ]

\* the file holds text that json.loads rejects
CorruptState == [ status |-> "corrupt", actors |-> NoActors ]

\* _load_state: a missing file and a file that cannot be decoded both read
\* as the empty structure
LoadState(file) == IF file.status = "ok" THEN file.actors ELSE NoActors

\* _save_state: the file is replaced by the dump of the state
SaveState(actors) == [ status |-> "ok", actors |-> actors ]

UpperCase ==
  << "A", "B", "C", "D", "E", "F", "G", "H", "I", "J", "K", "L", "M",
     "N", "O", "P", "Q", "R", "S", "T", "U", "V", "W", "X", "Y", "Z" >>

LowerCase ==
  << "a", "b", "c", "d", "e", "f", "g", "h", "i", "j", "k", "l", "m",
     "n", "o", "p", "q", "r", "s", "t", "u", "v", "w", "x", "y", "z" >>

\* str.lower on one character
LowerChar(c) ==
  IF \E i \in 1..Len(UpperCase) : UpperCase[i] = c
    THEN LowerCase[CHOOSE i \in 1..Len(UpperCase) : UpperCase[i] = c]
    ELSE c

\* condition.strip().lower()
NormalCondition(condition) ==
  [ i \in 1..Len(Strip(condition)) |-> LowerChar(Strip(condition)[i]) ]

\* the answer of an operation that found no actor: nothing is saved
ActorNotFound(actors) ==
  [ error |-> TRUE, saved |-> FALSE, actors |-> actors, result |-> NoActor ]

\* the answer of an operation that saved the state
Stored(actors, actor_id) ==
  [ error |-> FALSE, saved |-> TRUE, actors |-> actors, result |-> actors[actor_id] ]

\* max(0, int(amount))
AtLeast0(x) == IF x > 0 THEN x ELSE 0

\* every id is taken for a stored actor
NotFoundNever(actors, actor_id) == FALSE

\* if not actor
NotFound(actors, actor_id) == ~actors[actor_id].present

\* upsert_actor with the current HP set to the new maximum
upsert_actor_resets_hp(actors, actor_id, name, max_hp, armor_class, extra) ==
  Stored([ actors EXCEPT ![actor_id] =
             [ present |-> TRUE, name |-> name, max_hp |-> max_hp, hp |-> max_hp,
               temp_hp |-> IF actors[actor_id].present THEN actors[actor_id].temp_hp ELSE 0,
               conditions |-> IF actors[actor_id].present
                                THEN actors[actor_id].conditions ELSE << >>,
               armor_class |-> armor_class,
               extra |-> IF extra # None THEN extra
                         ELSE IF actors[actor_id].present THEN actors[actor_id].extra
                         ELSE None ] ], actor_id)

\* upsert_actor: conditions, temp HP and HP are kept when the record has
\* them; name, max HP and armor class are set; extra is set when given
upsert_actor(actors, actor_id, name, max_hp, armor_class, extra) ==
  Stored([ actors EXCEPT ![actor_id] =
             [ present |-> TRUE, name |-> name, max_hp |-> max_hp,
               hp |-> IF actors[actor_id].present THEN actors[actor_id].hp ELSE max_hp,
               temp_hp |-> IF actors[actor_id].present THEN actors[actor_id].temp_hp ELSE 0,
               conditions |-> IF actors[actor_id].present
                                THEN actors[actor_id].conditions ELSE << >>,
               armor_class |-> armor_class,
               extra |-> IF extra # None THEN extra
                         ELSE IF actors[actor_id].present THEN actors[actor_id].extra
                         ELSE None ] ], actor_id)

\* get_actor
get_actor(actors, actor_id) ==
  IF NotFound(actors, actor_id) THEN ActorNotFound(actors)
  ELSE [ error |-> FALSE, saved |-> FALSE, actors |-> actors,
         result |-> actors[actor_id] ]

\* the damage taken from the base HP alone, temp HP untouched
DamagedPastTempHp(actor, amount) ==
  IF amount > 0 THEN [ actor EXCEPT !.hp = AtLeast0(actor.hp - amount) ] ELSE actor

\* the record of an actor after amount (already floored at 0) of damage:
\* temp HP soaks the damage first, the rest is taken from HP, floored at 0
Damaged(actor, amount) ==
  LET used == IF actor.temp_hp > 0 /\ amount > 0
                THEN IF actor.temp_hp < amount THEN actor.temp_hp ELSE amount
                ELSE 0
      rest == amount - used
  IN  [ actor EXCEPT !.temp_hp = actor.temp_hp - used,
                     !.hp = IF rest > 0 THEN AtLeast0(actor.hp - rest) ELSE actor.hp ]

\* apply_damage
apply_damage(actors, actor_id, amount) ==
  IF NotFound(actors, actor_id) THEN ActorNotFound(actors)
  ELSE Stored([ actors EXCEPT ![actor_id] = Damaged(actors[actor_id], AtLeast0(amount)) ],
              actor_id)

\* heal_actor
heal_actor(actors, actor_id, amount, allow_overheal) ==
  IF NotFound(actors, actor_id) THEN ActorNotFound(actors)
  ELSE LET before_hp == actors[actor_id].hp
           max_hp    == actors[actor_id].max_hp
           new_hp    == before_hp + AtLeast0(amount)
       IN  Stored([ actors EXCEPT ![actor_id].hp =
                      IF ~allow_overheal /\ max_hp < new_hp THEN max_hp ELSE new_hp ],
                  actor_id)

\* cond is in conds
Holds(conds, cond) == \E i \in 1..Len(conds) : conds[i] = cond

\* [c for c in conds if c != cond]
RECURSIVE Without(_, _)
Without(conds, cond) ==
  IF conds = << >> THEN << >>
  ELSE IF Head(conds) = cond THEN Without(Tail(conds), cond)
  ELSE << Head(conds) >> \o Without(Tail(conds), cond)

\* add_condition that appends whether or not the condition is present
add_condition_always(actors, actor_id, condition) ==
  IF NotFound(actors, actor_id) THEN ActorNotFound(actors)
  ELSE Stored([ actors EXCEPT ![actor_id].conditions =
                  Append(@, NormalCondition(condition)) ], actor_id)

\* add_condition
add_condition(actors, actor_id, condition) ==
  IF NotFound(actors, actor_id) THEN ActorNotFound(actors)
  ELSE Stored([ actors EXCEPT ![actor_id].conditions =
                  IF Holds(@, NormalCondition(condition)) THEN @
                  ELSE Append(@, NormalCondition(condition)) ], actor_id)

\* remove_condition
remove_condition(actors, actor_id, condition) ==
  IF NotFound(actors, actor_id) THEN ActorNotFound(actors)
  ELSE Stored([ actors EXCEPT ![actor_id].conditions =
                  Without(@, NormalCondition(condition)) ], actor_id)

\* reset_combat_state
reset_combat_state ==
  [ error |-> FALSE, saved |-> TRUE, actors |-> NoActors, result |-> NoActor ]

\* ------------------------------------------------------------------------
\* The story graph: StoryGraph.nodes and the loading of scene records
\* ------------------------------------------------------------------------

\* a key of a JSON object: << >> when the object has no such key
Absent == << >>
Given(x) == << x >>

\* the edge has no "to"
EdgeMalformed(ed) == ed.to = Absent

\* the scene record cannot be built into a SceneNode: data["id"] or
\* ed["to"] raises KeyError
SceneMalformed(data) ==
  \/ data.id = Absent
  \/ \E i \in 1..Len(data.next) : EdgeMalformed(data.next[i])

\* the SceneNode built from a well-formed record
SceneNode(data) ==
  [ id |-> data.id[1],
    edges |-> [ i \in 1..Len(data.next) |-> [ to |-> data.next[i].to[1] ] ] ]

\* add_scene: self.nodes[node.id] = node; a dict keeps the place of a key
\* that is assigned again and puts a new key last
add_scene(nodes, node) ==
  IF \E i \in 1..Len(nodes) : nodes[i].id = node.id
    THEN [ i \in 1..Len(nodes) |-> IF nodes[i].id = node.id THEN node ELSE nodes[i] ]
    ELSE Append(nodes, node)

\* add_scene_from_dict
add_scene_from_dict(nodes, data) ==
  IF SceneMalformed(data)
    THEN [ error |-> TRUE, nodes |-> nodes ]
    ELSE [ error |-> FALSE, nodes |-> add_scene(nodes, SceneNode(data)) ]

\* the loop of add_scenes_from_json_list over the records of the batch: it
\* ends at the first record that raises
RECURSIVE AddScenes(_, _)
AddScenes(nodes, data) ==
  IF data = << >> THEN [ error |-> FALSE, nodes |-> nodes ]
  ELSE IF add_scene_from_dict(nodes, Head(data)).error
         THEN [ error |-> TRUE, nodes |-> nodes ]
  ELSE AddScenes(add_scene_from_dict(nodes, Head(data)).nodes, Tail(data))

\* add_scenes_from_json_list on the decoded text: text that is no JSON and
\* JSON that is neither an object nor a list raise ValueError, an object is
\* taken for a list of one record
add_scenes_from_json_list(nodes, doc) ==
  IF doc.kind \in { "invalid", "number" }
    THEN [ error |-> TRUE, nodes |-> nodes ]
    ELSE AddScenes(nodes, doc.data)

\* sid in self.nodes
HasNode(nodes, sid) == \E i \in 1..Len(nodes) : nodes[i].id = sid

\* self.nodes.get(sid).edges
EdgesOf(nodes, sid) == nodes[CHOOSE i \in 1..Len(nodes) : nodes[i].id = sid].edges

\* the warnings of one node: one for each edge whose target is no node
NodeWarnings(nodes, node) ==
  [ k \in 1..Len(SelectSeq(node.edges, LAMBDA e : ~HasNode(nodes, e.to))) |->
      [ sid |-> node.id,
        to  |-> SelectSeq(node.edges, LAMBDA e : ~HasNode(nodes, e.to))[k].to ] ]

\* validate_graph: the warnings of the nodes from the i-th on, in the order
\* of the dict
RECURSIVE WarningsFrom(_, _)
WarningsFrom(nodes, i) ==
  IF i > Len(nodes) THEN << >>
  ELSE NodeWarnings(nodes, nodes[i]) \o WarningsFrom(nodes, i + 1)

\* validate_graph that stops at the first dangling edge
validate_graph_first_only(nodes) ==
  IF WarningsFrom(nodes, 1) = << >> THEN << >> ELSE << Head(WarningsFrom(nodes, 1)) >>

validate_graph(nodes) == WarningsFrom(nodes, 1)

\* dfs(u) of check_is_dag with the visited map passed along: 0 = new,
\* 1 = visiting, 2 = visited; False as soon as a node being visited is met
RECURSIVE dfs(_, _, _)
RECURSIVE dfs_edges(_, _, _, _)
dfs_done(r, u) ==
  IF r.ok THEN [ ok |-> TRUE, visited |-> [ r.visited EXCEPT ![u] = 2 ] ] ELSE r

dfs(nodes, visited, u) ==
  IF visited[u] = 1 THEN [ ok |-> FALSE, visited |-> visited ]
  ELSE IF visited[u] = 2 THEN [ ok |-> TRUE, visited |-> visited ]
  ELSE dfs_done(dfs_edges(nodes, [ visited EXCEPT ![u] = 1 ], EdgesOf(nodes, u), 1), u)

\* the loop over node.edges from the k-th edge on
dfs_next(nodes, edges, k, r) ==
  IF r.ok THEN dfs_edges(nodes, r.visited, edges, k + 1) ELSE r

dfs_edges(nodes, visited, edges, k) ==
  IF k > Len(edges) THEN [ ok |-> TRUE, visited |-> visited ]
  ELSE IF ~HasNode(nodes, edges[k].to) THEN dfs_edges(nodes, visited, edges, k + 1)
  ELSE dfs_next(nodes, edges, k, dfs(nodes, visited, edges[k].to))

\* the loop of check_is_dag over self.nodes from the i-th node on
RECURSIVE dag_from(_, _, _)
dag_next(nodes, i, r) == IF r.ok THEN dag_from(nodes, r.visited, i + 1) ELSE FALSE

dag_from(nodes, visited, i) ==
  IF i > Len(nodes) THEN TRUE
  ELSE IF visited[nodes[i].id] # 0 THEN dag_from(nodes, visited, i + 1)
  ELSE dag_next(nodes, i, dfs(nodes, visited, nodes[i].id))

\* check_is_dag that follows no edge back to the node it leaves
check_is_dag_no_self_loop(nodes) ==
  dag_from([ i \in 1..Len(nodes) |->
               [ nodes[i] EXCEPT !.edges = SelectSeq(@, LAMBDA e : e.to # nodes[i].id) ] ],
           [ sid \in { nodes[i].id : i \in 1..Len(nodes) } |-> 0 ], 1)

\* check_is_dag
check_is_dag(nodes) ==
  dag_from(nodes, [ sid \in { nodes[i].id : i \in 1..Len(nodes) } |-> 0 ], 1)

\* to_dict: dataclasses.asdict of every node; the edges of a node are
\* exported under the key "edges", the record has no key "next"
to_dict(nodes) ==
  [ i \in 1..Len(nodes) |->
      [ id |-> Given(nodes[i].id), next |-> Absent,
        edges |-> [ k \in 1..Len(nodes[i].edges) |->
                      [ to |-> Given(nodes[i].edges[k].to) ] ] ] ]

\* ------------------------------------------------------------------------
\* State
\* ------------------------------------------------------------------------

VARIABLES
  file_state,    \* the session file: "absent", "complete" (it holds a whole
                 \* JSON document) or "truncated" (it exists and holds none)
  session_file,  \* the GameSession document stored in the session file
  last,          \* the request being answered: what its handler did and
                 \* returns to the caller (op "none" between requests)
  turns_done,    \* number of narrative turns handled
  rounds_done,   \* number of combat rounds handled
  queries_done,  \* number of rules/lore queries handled
  dealt,         \* per enemy name: sum of damage_dealt of the player's hits
                 \* in the rounds that were saved
  appended,      \* number of history entries written by the saves so far
  pc,            \* SpecSteps: where each worker thread is in its handler
  local,         \* SpecSteps: the session object a worker loaded, and the
                 \* outcome of its handler once computed
  dice,          \* SpecDice: the call of a dice or attack function that was
                 \* made, with its arguments and what it returned
  combat_file,   \* SpecLedger: the file state/combat_state.json
  reply,         \* SpecLedger: the last call of a ledger operation, with its
                 \* arguments, the file as it was before and what it returned
  graph,         \* SpecGraph: StoryGraph.nodes, the scenes in the order of
                 \* the dict
  graph_reply    \* SpecGraph: the last call of a method of the graph, with
                 \* its argument, the nodes before it and how it ended

vars == << file_state, session_file, last, turns_done, rounds_done, queries_done,
          dealt, appended, pc, local, dice, combat_file, reply, graph, graph_reply >>

\* the variables of the story graph
graph_vars == << graph, graph_reply >>

\* no method of the graph has been called
NoGraphCall ==
  [ op |-> "none", doc |-> [ kind |-> "none", data |-> << >> ],
    error |-> FALSE, before |-> << >> ]

\* the variables of the ledger
ledger_vars == << combat_file, reply >>

\* number of requests handled
RequestsDone == turns_done + rounds_done + queries_done

\* no dice function has been called
NoCall == [ op |-> "none" ]

\* the arguments an operation does not take
NoArgs ==
  [ name |-> None, max_hp |-> 0, armor_class |-> << >>, extra |-> None,
    amount |-> 0, allow_overheal |-> FALSE, condition |-> << >> ]

\* no ledger operation has been called
NoReply ==
  [ calls |-> 0, op |-> "none", actor_id |-> None, args |-> NoArgs,
    error |-> FALSE, before |-> AbsentState, result |-> NoActor,
    overhealed |-> FALSE ]

\* ------------------------------------------------------------------------
\* The GameSession document (app/schemas.py, GameSession / PlayerState)
\* ------------------------------------------------------------------------

\* content of a file that holds no session document
NoSession ==
  [ story_id |-> None, current_node_id |-> None, current_node_turns |-> 0, players |-> << >>,
    enemy_states |-> << >>, chat_history |-> << >> ]

\* one chat_history entry; content is a text, kept as its pieces in order
Msg(role, content) == [ role |-> role, content |-> content ]

\* session.enemy_states.get(name, {"damage_taken": 0}).get("damage_taken", 0)
DamageTaken(session, name) ==
  IF name \in DOMAIN session.enemy_states
    THEN session.enemy_states[name].damage_taken
    ELSE 0

\* session.enemy_states[name] = {"damage_taken": total}
SetDamageTaken(enemy_states, name, total) ==
  [ n \in (DOMAIN enemy_states) \cup {name} |->
      IF n = name THEN [ damage_taken |-> total ] ELSE enemy_states[n] ]

\* the session with players[0].current_hp replaced
SetPlayerHp(session, hp) ==
  [ session EXCEPT !.players = [ @ EXCEPT ![1] = [ @ EXCEPT !.current_hp = hp ] ] ]

\* e for e in entities if e.get("type") == "monster", for the node of that
\* id (node ids are unique across the stories; a missing node has none)
Monsters(node_id) ==
  IF node_id \in DOMAIN StoryNodes
    THEN SelectSeq(StoryNodes[node_id].entities, LAMBDA e : e.type = "monster")
    ELSE << >>

\* ------------------------------------------------------------------------
\* create_session (app/engine/session.py)
\* ------------------------------------------------------------------------

\* request.player_name of the session-create request
PlayerName == "Hero"

\* create_session with the player's HP at the fallback of
\* raw_char.get("hp_max", 10) whatever the character sheet says
create_session_default_hp(story_id, character_idx) ==
  LET raw_char == Characters[character_idx + 1]
      player_state == [ name |-> PlayerName, character_sheet |-> raw_char,
                        current_hp |-> 10 ]
      nodes == NodeOrderOf(story_id)
      start_node_id == IF Len(nodes) > 0 THEN nodes[1] ELSE "start"
  IN  IF character_idx >= Len(Characters)
        THEN [ ok |-> FALSE, session |-> NoSession ]
        ELSE [ ok |-> TRUE,
               session |->
                 [ story_id |-> story_id,
                   current_node_id |-> start_node_id, current_node_turns |-> 0,
                   players |-> << player_state >>,
                   enemy_states |-> << >>, chat_history |-> << >> ] ]

\* the session built for a story and a character index (0-based, as in
\* the request)
create_session(story_id, character_idx) ==
  LET raw_char == Characters[character_idx + 1]
      player_state == [ name |-> PlayerName, character_sheet |-> raw_char,
                        current_hp |-> raw_char.hp_max ]
      nodes == NodeOrderOf(story_id)
      start_node_id == IF Len(nodes) > 0 THEN nodes[1] ELSE "start"
  IN  IF character_idx >= Len(Characters)
        THEN [ ok |-> FALSE, session |-> NoSession ]
        ELSE [ ok |-> TRUE,
               session |->
                 [ story_id |-> story_id,
                   current_node_id |-> start_node_id, current_node_turns |-> 0,
                   players |-> << player_state >>,
                   enemy_states |-> << >>, chat_history |-> << >> ] ]

\* no attack was resolved
NoAttack ==
  [ made |-> FALSE, name |-> None, is_hit |-> FALSE, is_crit |-> FALSE,
    damage_dealt |-> 0 ]

\* the result of an attack that was resolved with the action called name
AttackMade(name, res) ==
  [ made |-> TRUE, name |-> name, is_hit |-> res.is_hit, is_crit |-> res.is_crit,
    damage_dealt |-> res.damage_dealt ]

\* what a handler returns when it raised
Failed(op, phase) ==
  [ op |-> op, status |-> "error", phase |-> phase, active_mode |-> None,
    transition_to_id |-> None, damage_taken |-> 0,
    player_action |-> [ kind |-> Missing, attack_name |-> None ],
    enemy_action |-> [ kind |-> Missing, action_name |-> None ],
    combat_state |-> [ should_end |-> FALSE, end_reason |-> None ],
    player_attack |-> NoAttack, enemy_attack |-> NoAttack,
    enemy_name |-> None, enemy_hp_before |-> 0, enemy_hp_after |-> 0 ]

\* what a handler returns when it ran to its save
Returned(op, phase, active_mode) ==
  [ Failed(op, phase) EXCEPT !.status = "ok", !.active_mode = active_mode ]

\* ------------------------------------------------------------------------
\* Narrative turn (app/engine/ai_dm.py, DungeonMasterAI.process_turn)
\* ------------------------------------------------------------------------

\* new_node.get("title") or "Unknown Scene"
TitleOf(node) == IF node.title = None THEN "Unknown Scene" ELSE node.title

\* new_node.get("read_aloud") or ""
ReadAloudOf(node) == IF node.read_aloud = None THEN "" ELSE node.read_aloud

\* the "- name (damage)" lines of the player's attacks
AttackLines(player) ==
  LET attacks == player.character_sheet.attacks
  IN  [ i \in 1..(2 * Len(attacks)) |->
          IF i % 2 = 1 THEN attacks[(i + 1) \div 2].name
                       ELSE attacks[i \div 2].damage ]

\* the text entered into the history when a scene is entered: the combat
\* opening for a combat node, the scene's title and read-aloud otherwise
WelcomeText(player, new_node_id) ==
  LET new_node == StoryNodes[new_node_id]
      enemies  == Monsters(new_node_id)
      enemy_name == IF Len(enemies) > 0 THEN enemies[1].name ELSE "enemy"
      hp_line  == IF Len(enemies) > 0 /\ enemies[1].stats.hp_max # 0
                    THEN << "approximately", ToString(enemies[1].stats.hp_max), "HP" >>
                    ELSE << >>
  IN  IF new_node.type = "combat"
        THEN << "[Combat Begins]", enemy_name >> \o hp_line
               \o << "Your main attacks are:" >> \o AttackLines(player)
        ELSE << "[Entered:", TitleOf(new_node), "]", ReadAloudOf(new_node) >>

\* the mechanics log of the turn: the model's own log and the verified
\* ability-check logs, None when both are empty
TurnMechanicsLog(llm) ==
  IF llm.checks > 0
    THEN IF llm.mechanics_log # None
           THEN << llm.mechanics_log, "[Verified]:", "Ability Check" >>
           ELSE << "Ability Check" >>
    ELSE IF llm.mechanics_log # None THEN << llm.mechanics_log >> ELSE << >>

\* enter_node with the turn counter left as the turn advanced it
enter_node_keeps_turns(session, new_node_id, welcome_text) ==
  [ session EXCEPT !.current_node_id = new_node_id,
                   !.chat_history = Append(@, Msg("assistant", welcome_text)) ]

\* an accepted transition: the pointer moves, the turn counter restarts
\* and the welcome text enters the history
enter_node(session, new_node_id, welcome_text) ==
  [ session EXCEPT !.current_node_id = new_node_id,
                   !.current_node_turns = 0,
                   !.chat_history = Append(@, Msg("assistant", welcome_text)) ]

\* the end of the turn: the turn's own history entries and the response.
\* session is the session object after the transition decision.
record_turn(session, llm, welcome_text, transitioned_to_combat) ==
  LET mechanics_log == TurnMechanicsLog(llm)
      history == session.chat_history
                   \o << Msg("user", << "player input" >>) >>
                   \o (IF mechanics_log # << >>
                         THEN << Msg("data", mechanics_log) >> ELSE << >>)
                   \o << Msg("assistant", llm.narrative \o welcome_text) >>
  IN  [ ok |-> TRUE,
        session |-> [ session EXCEPT !.chat_history = history ],
        response |->
          [ Returned("turn", "committed",
                     IF transitioned_to_combat THEN "fight" ELSE None)
              EXCEPT !.transition_to_id = llm.transition_to_id ] ]

\* a transition the pacing rule refuses: the target exists, but the turns
\* spent in the current node are still below its min_turns
TransitionAcceptedAfterMinTurns(session, transition_to_id) ==
  /\ transition_to_id # None
  /\ transition_to_id \in DOMAIN StoryNodesOf(session.story_id)
  /\ session.current_node_turns
       >= StoryNodesOf(session.story_id)[session.current_node_id].min_turns

\* the transition test of the turn, on the session whose turn counter has
\* advanced: the id is set and is a node of the story
TransitionAccepted(session, transition_to_id) ==
  /\ transition_to_id # None
  /\ transition_to_id \in DOMAIN StoryNodesOf(session.story_id)

\* the whole handler on the loaded session; llm is what the language model
\* answered (or that the call raised).  The result holds the session object
\* as the handler left it in memory, whether the handler reached its save
\* (ok), and what it returns.
process_turn(session, llm) ==
  LET turned == [ session EXCEPT !.current_node_turns = @ + 1 ]
      accepted == TransitionAccepted(turned, llm.transition_to_id)
  IN  IF session.current_node_id \notin DOMAIN StoryNodesOf(session.story_id)
        THEN [ ok |-> FALSE, session |-> turned, response |-> Failed("turn", "node") ]
      ELSE IF llm.fails
        THEN [ ok |-> FALSE, session |-> turned, response |-> Failed("turn", "llm") ]
      ELSE IF accepted
        THEN record_turn(enter_node(turned, llm.transition_to_id,
                                    WelcomeText(session.players[1], llm.transition_to_id)),
                         llm,
                         WelcomeText(session.players[1], llm.transition_to_id),
                         StoryNodes[llm.transition_to_id].type = "combat")
      ELSE record_turn(turned, llm, << >>, FALSE)

\* what the language model can answer in a narrative turn
TurnAnswers ==
  { [ fails |-> FALSE, narrative |-> x.n, mechanics_log |-> x.m, checks |-> x.c,
      transition_to_id |-> t ] :
      x \in { [ n |-> << >>, m |-> None, c |-> 0 ],
              [ n |-> << "narration" >>, m |-> "llm log", c |-> 1 ] },
      t \in { None, "n1", "n2", "n3", "ghost" } }
  \cup
  { [ fails |-> TRUE, narrative |-> << >>, mechanics_log |-> None, checks |-> 0,
      transition_to_id |-> None ] }

\* ------------------------------------------------------------------------
\* Rules/lore query (app/engine/ai_dm.py, DungeonMasterAI.process_query)
\* ------------------------------------------------------------------------

\* the whole handler on the loaded session: the question and its answer
\* enter the history, nothing else changes
process_query_counts_turn(session, answer_text) ==
  [ ok |-> TRUE,
    session |-> [ session EXCEPT !.current_node_turns = @ + 1,
                                 !.chat_history =
                    @ \o << Msg("query", << "player input" >>),
                            Msg("query_answer", answer_text) >> ],
    response |-> Returned("query", "committed", None) ]

process_query(session, answer_text) ==
  [ ok |-> TRUE,
    session |-> [ session EXCEPT !.chat_history =
                    @ \o << Msg("query", << "player input" >>),
                            Msg("query_answer", answer_text) >> ],
    response |-> Returned("query", "committed", None) ]

\* ------------------------------------------------------------------------
\* Combat round (app/engine/fight_agent.py, FightAgent.process_fight_round)
\* ------------------------------------------------------------------------

\* index of the entry a name -> entry dict keeps for name: the last entry
\* of the list with that name, 0 when the name is not a key
IndexByName(entries, name) ==
  LET hits == { i \in 1..Len(entries) : entries[i].name = name }
  IN  IF name = None \/ hits = {} THEN 0
      ELSE CHOOSE i \in hits : \A j \in hits : j <= i

\* PlayerAttackIndex with an unknown name falling back to the first attack
\* of the character, the way the enemy's action falls back
PlayerAttackIndexFallsBack(player, player_action) ==
  LET pa_kind == IF player_action.kind = Missing THEN "other" ELSE player_action.kind
      named == IndexByName(player.character_sheet.attacks, player_action.attack_name)
      idx == IF named # 0 THEN named ELSE 1
  IN  IF pa_kind \in {"attack", "cast_spell"}
           /\ player.character_sheet.attacks[idx].damage # ""
        THEN idx ELSE 0

\* the player's attack the plan selects: index into the character's
\* attacks, 0 when the action is no attack or names no known attack
PlayerAttackIndex(player, player_action) ==
  LET pa_kind == IF player_action.kind = Missing THEN "other" ELSE player_action.kind
      idx == IndexByName(player.character_sheet.attacks, player_action.attack_name)
  IN  IF pa_kind \in {"attack", "cast_spell"} /\ idx # 0
           /\ player.character_sheet.attacks[idx].damage # ""
        THEN idx ELSE 0

\* act.get("attack_bonus") is not None and act.get("damage_dice")
HasAttackNumbers(act) ==
  act.has_bonus /\ act.damage_dice # None /\ act.damage_dice # ""

\* the default taken as the first action of the list, usable or not
choose_first_enemy_action(enemy_actions) ==
  IF Len(enemy_actions) = 0 THEN 0 ELSE 1

\* _choose_default_enemy_attack: the first action with attack numbers
choose_default_enemy_attack(enemy_actions) ==
  LET usable == { i \in 1..Len(enemy_actions) : HasAttackNumbers(enemy_actions[i]) }
  IN  IF usable = {} THEN 0
      ELSE CHOOSE i \in usable : \A j \in usable : i <= j

\* the enemy action the round resolves: index into the enemy's actions,
\* 0 when the enemy makes no attack
EnemyAttackIndex(enemy_actions, enemy_action) ==
  LET ea_kind == IF enemy_action.kind = Missing THEN "attack" ELSE enemy_action.kind
      named == IndexByName(enemy_actions, enemy_action.action_name)
      idx == IF ea_kind = "attack" /\ named # 0 THEN named
             ELSE IF ea_kind = "attack" THEN choose_default_enemy_attack(enemy_actions)
             ELSE 0
  IN  IF idx # 0 /\ HasAttackNumbers(enemy_actions[idx]) THEN idx ELSE 0

\* _run_attack_and_log: the damage counted is 0 unless the attack hit
run_attack_and_log(attack_bonus, damage_dice, target_ac, d20, rs) ==
  LET result == resolve_attack(attack_bonus, target_ac, damage_dice, d20, rs)
  IN  [ ok |-> result.ok,
        dmg |-> IF result.is_hit THEN result.damage_dealt ELSE 0,
        result |-> result ]

\* enemy_stats.get("ac", 12)
EnemyAc(stats) == IF stats.ac = 0 THEN DefaultEnemyAc ELSE stats.ac

\* enemy_stats.get("hp_max", 30)
EnemyMaxHp(stats) == IF stats.hp_max = 0 THEN DefaultEnemyMaxHp ELSE stats.hp_max

\* the difference kept as it is, without the floor at 0
NoFloor(x) == x

\* max(0, x)
Max0(x) == IF x > 0 THEN x ELSE 0

\* the end test with every end signal of the plan accepted
RoundEndedOnAnySignal(combat_state, enemy_dead, player_dead) ==
  enemy_dead \/ player_dead \/ combat_state.should_end

\* the end test of the round: a death, or an end signal of the plan whose
\* reason is one of the four accepted ones
RoundEnded(combat_state, enemy_dead, player_dead) ==
  enemy_dead \/ player_dead
    \/ (combat_state.should_end
          /\ combat_state.end_reason \in {"enemy_dead", "player_dead", "truce", "escape"})

\* the narrator's text, with the system notes the round adds to it
NarrativeText(narrator, enemy_name, enemy_dead, player_dead, ended) ==
  << "narration" >>
    \o (IF ended /\ enemy_dead
          THEN << "(System:", enemy_name, "has been defeated!)" >> ELSE << >>)
    \o (IF ended /\ player_dead
          THEN << "(System: You fall to 0 HP and drop unconscious.)" >> ELSE << >>)

\* the short-circuit exit answering with the mode of an ongoing fight
NothingToFightStaysInFight(session, phase, text) ==
  [ ok |-> TRUE,
    session |-> [ session EXCEPT !.chat_history = Append(@, Msg("assistant", text)) ],
    response |-> Returned("fight", phase, "fight") ]

\* the short-circuit exit: one narrative entry is saved, mode "action"
NothingToFight(session, phase, text) ==
  [ ok |-> TRUE,
    session |-> [ session EXCEPT !.chat_history = Append(@, Msg("assistant", text)) ],
    response |-> Returned("fight", phase, "action") ]

\* what a round that raised after its plan was made hands to the route
RaisedIn(phase, plan) ==
  [ Failed("fight", phase) EXCEPT !.player_action = plan.player_action,
                                  !.enemy_action = plan.enemy_action,
                                  !.combat_state = plan.combat_state ]

\* steps 4 to 6 of the round: narrator call, end state and mode, history
\* entries and the save.  session is the session object after the HP
\* update, round_summary the summary the narrator is given.
commit_round(session, plan, narrator, round_summary, player_damage_taken_this_round) ==
  LET enemy_name  == round_summary.enemy.name
      player_dead == round_summary.player.hp_after <= 0
      enemy_dead  == round_summary.enemy.hp_after <= 0
      ended == RoundEnded(plan.combat_state, enemy_dead, player_dead)
      history == session.chat_history
                   \o << Msg("user", << "[Encounter]", "player input" >>) >>
                   \o (IF round_summary.mechanics_log # << >>
                         THEN << Msg("data", round_summary.mechanics_log) >> ELSE << >>)
                   \o << Msg("assistant",
                             NarrativeText(narrator, enemy_name, enemy_dead,
                                           player_dead, ended)) >>
  IN  IF narrator = "fails"
        THEN [ ok |-> FALSE, session |-> session, response |-> RaisedIn("narrator", plan) ]
        ELSE [ ok |-> TRUE,
               session |-> [ session EXCEPT !.chat_history = history ],
               response |->
                 [ Returned("fight", "committed", IF ended THEN "action" ELSE "fight")
                     EXCEPT !.damage_taken = player_damage_taken_this_round,
                            !.player_action = plan.player_action,
                            !.enemy_action = plan.enemy_action,
                            !.combat_state = plan.combat_state,
                            !.player_attack = round_summary.attack_results.player_attack,
                            !.enemy_attack = round_summary.attack_results.enemy_attack,
                            !.enemy_name = enemy_name,
                            !.enemy_hp_before = round_summary.enemy.hp_before,
                            !.enemy_hp_after = round_summary.enemy.hp_after ] ]

\* the HP update of the round: the player's HP and the enemy's cumulative
\* damage change only for a damage above 0
update_hp(session, plan, narrator, target_enemy, enemy_current_hp, enemy_damage_taken_this_round, player_damage_taken_this_round, attack_results, mechanics_logs) ==
  LET player == session.players[1]
      enemy_name == target_enemy.name
      new_player_hp ==
        IF player_damage_taken_this_round > 0
          THEN Max0(player.current_hp - player_damage_taken_this_round)
          ELSE player.current_hp
      new_total_damage == DamageTaken(session, enemy_name) + enemy_damage_taken_this_round
      new_enemy_states ==
        IF enemy_damage_taken_this_round > 0
          THEN SetDamageTaken(session.enemy_states, enemy_name, new_total_damage)
          ELSE session.enemy_states
      enemy_current_hp_after ==
        IF enemy_damage_taken_this_round > 0
          THEN Max0(EnemyMaxHp(target_enemy.stats) - new_total_damage)
          ELSE enemy_current_hp
  IN  commit_round([ SetPlayerHp(session, new_player_hp)
                       EXCEPT !.enemy_states = new_enemy_states ],
                   plan, narrator,
                   [ player |-> [ hp_before |-> player.current_hp,
                                  hp_after |-> new_player_hp ],
                     enemy |-> [ name |-> enemy_name, hp_before |-> enemy_current_hp,
                                 hp_after |-> enemy_current_hp_after ],
                     attack_results |-> attack_results,
                     mechanics_log |-> mechanics_logs ],
                   player_damage_taken_this_round)

\* step 3 of the round: the player's attack, then the enemy's.  p_idx and
\* e_idx select the attacks (0: none), p_run and e_run are their outcomes.
resolve_plan(session, plan, narrator, target_enemy, enemy_current_hp, p_idx, e_idx, p_run, e_run) ==
  LET player == session.players[1]
  IN  IF p_idx # 0 /\ ~p_run.ok
        THEN [ ok |-> FALSE, session |-> session,
               response |-> RaisedIn("player_attack", plan) ]
      ELSE IF e_idx # 0 /\ ~e_run.ok
        THEN [ ok |-> FALSE, session |-> session,
               response |-> RaisedIn("enemy_attack", plan) ]
      ELSE update_hp(session, plan, narrator, target_enemy, enemy_current_hp,
                     IF p_idx # 0 THEN p_run.dmg ELSE 0,
                     IF e_idx # 0 THEN e_run.dmg ELSE 0,
                     [ player_attack |->
                         IF p_idx # 0
                           THEN AttackMade(player.character_sheet.attacks[p_idx].name,
                                           p_run.result)
                           ELSE NoAttack,
                       enemy_attack |->
                         IF e_idx # 0
                           THEN AttackMade(target_enemy.stats.actions[e_idx].name,
                                           e_run.result)
                           ELSE NoAttack ],
                     (IF p_idx # 0 THEN << player.name, p_run.result.log >> ELSE << >>)
                       \o (IF e_idx # 0 THEN << target_enemy.name, e_run.result.log >>
                                        ELSE << >>))

\* the round against the first monster of the node, from the test of its
\* derived HP to the resolution of the plan
fight_enemy(session, inp, target_enemy, enemy_current_hp) ==
  LET player == session.players[1]
      p_idx == PlayerAttackIndex(player, inp.plan.player_action)
      atk_obj == player.character_sheet.attacks[p_idx]
      e_idx == EnemyAttackIndex(target_enemy.stats.actions, inp.plan.enemy_action)
      enemy_attack_dict == target_enemy.stats.actions[e_idx]
  IN  IF enemy_current_hp <= 0
        THEN NothingToFight(session, "already_defeated",
                            << target_enemy.name, "already lies defeated." >>)
      ELSE IF inp.planner_fails
        THEN [ ok |-> FALSE, session |-> session,
               response |-> Failed("fight", "planner") ]
      ELSE resolve_plan(session, inp.plan, inp.narrator, target_enemy, enemy_current_hp,
                        p_idx, e_idx,
                        run_attack_and_log(atk_obj.bonus, atk_obj.damage,
                                           EnemyAc(target_enemy.stats),
                                           inp.p_d20, inp.p_rs),
                        run_attack_and_log(enemy_attack_dict.attack_bonus,
                                           enemy_attack_dict.damage_dice,
                                           player.character_sheet.ac,
                                           inp.e_d20, inp.e_rs))

\* the whole handler on the loaded session.  inp holds what the planner
\* and the narrator answered (or that a call raised) and how the dice fell.
\* The result holds the session object as the handler left it in memory,
\* whether the handler reached its save (ok), and what it returns.
process_fight_round(session, inp) ==
  LET enemies == Monsters(session.current_node_id)
  IN  IF Len(enemies) = 0
        THEN NothingToFight(session, "no_enemies",
                            << "There are no hostile monsters here." >>)
        ELSE fight_enemy(session, inp, enemies[1],
                         Max0(EnemyMaxHp(enemies[1].stats)
                                - DamageTaken(session, enemies[1].name)))

\* ------------------------------------------------------------------------
\* What the planner, the narrator and the dice can supply to a round
\* ------------------------------------------------------------------------

\* combat_state records of a plan
CombatStates ==
  { [ should_end |-> FALSE, end_reason |-> None ],
    [ should_end |-> TRUE,  end_reason |-> "truce" ],
    [ should_end |-> TRUE,  end_reason |-> "stalemate" ] }

\* the plan of a planner whose answer was no JSON: plan = {}
EmptyPlan ==
  [ player_action |-> [ kind |-> Missing, attack_name |-> None ],
    enemy_action |-> [ kind |-> Missing, action_name |-> None ],
    combat_state |-> [ should_end |-> FALSE, end_reason |-> None ] ]

\* the plans explored: two pairs of actions with every end signal, six
\* more pairs without an end signal, and the empty plan
Plans ==
  { [ player_action |-> x.pa, enemy_action |-> x.ea, combat_state |-> cs ] :
      x \in { [ pa |-> [ kind |-> "attack", attack_name |-> "Axe" ],
                ea |-> [ kind |-> "attack", action_name |-> "Rock" ] ],
              [ pa |-> [ kind |-> "attack", attack_name |-> "Fireball" ],
                ea |-> [ kind |-> "other", action_name |-> "Club" ] ] },
      cs \in CombatStates }
  \cup
  { [ player_action |-> x.pa, enemy_action |-> x.ea,
      combat_state |-> [ should_end |-> FALSE, end_reason |-> None ] ] :
      x \in { [ pa |-> [ kind |-> "attack", attack_name |-> "Axe" ],
                ea |-> [ kind |-> "attack", action_name |-> "Bite" ] ],
              [ pa |-> [ kind |-> "attack", attack_name |-> "Axe" ],
                ea |-> [ kind |-> "other", action_name |-> "Club" ] ],
              [ pa |-> [ kind |-> "cast_spell", attack_name |-> "Curse" ],
                ea |-> [ kind |-> "attack", action_name |-> "Rock" ] ],
              [ pa |-> [ kind |-> "attack", attack_name |-> "Broken" ],
                ea |-> [ kind |-> "attack", action_name |-> "Rock" ] ],
              [ pa |-> [ kind |-> "attack", attack_name |-> "Fireball" ],
                ea |-> [ kind |-> "attack", action_name |-> "Bite" ] ],
              [ pa |-> [ kind |-> "attack", attack_name |-> "Fireball" ],
                ea |-> [ kind |-> "attack", action_name |-> "Hex" ] ] } }
  \cup { EmptyPlan }

\* what the narrator call can do: return a text or raise
Narrators == { "plain", "fails" }

\* the node of the session has a monster to fight
HasEnemy(session) == Len(Monsters(session.current_node_id)) > 0

\* the d20 faces a round with this plan can roll for the player's attack:
\* none (0) when the plan leads to no player attack
PlayerD20(session, plan) ==
  IF PlayerAttackIndex(session.players[1], plan.player_action) # 0
    THEN DieFaces(20) ELSE {0}

\* the falls of the player's damage dice: they are rolled on a hit only
PlayerDamageRolls(session, plan, d20) ==
  LET idx == PlayerAttackIndex(session.players[1], plan.player_action)
      atk == session.players[1].character_sheet.attacks[idx]
      ac  == EnemyAc(Monsters(session.current_node_id)[1].stats)
  IN  IF idx # 0 /\ ToHit(atk.bonus, ac, d20).is_hit
        THEN AllRolls(DiceTerms(atk.damage))
        ELSE { << >> }

EnemyD20(session, plan) ==
  IF EnemyAttackIndex(Monsters(session.current_node_id)[1].stats.actions,
                      plan.enemy_action) # 0
    THEN DieFaces(20) ELSE {0}

EnemyDamageRolls(session, plan, d20) ==
  LET actions == Monsters(session.current_node_id)[1].stats.actions
      idx == EnemyAttackIndex(actions, plan.enemy_action)
      act == actions[idx]
      ac  == session.players[1].character_sheet.ac
  IN  IF idx # 0 /\ ToHit(act.attack_bonus, ac, d20).is_hit
        THEN AllRolls(DiceTerms(act.damage_dice))
        ELSE { << >> }

\* a round on this session ends before the planner is called
ShortCircuits(session) ==
  \/ ~HasEnemy(session)
  \/ LET enemy == Monsters(session.current_node_id)[1]
     IN  EnemyMaxHp(enemy.stats) - DamageTaken(session, enemy.name) <= 0

\* the input of a round that consults neither planner, dice nor narrator
NoInput ==
  [ planner_fails |-> FALSE, plan |-> EmptyPlan, p_d20 |-> 0, p_rs |-> << >>,
    e_d20 |-> 0, e_rs |-> << >>, narrator |-> "plain" ]

\* everything a round on this session can be given
RoundInputs(session, plans, narrators) ==
  IF ShortCircuits(session) THEN { NoInput }
  ELSE
    UNION { UNION { UNION {
      { [ planner_fails |-> FALSE, plan |-> pl, p_d20 |-> a, p_rs |-> b,
          e_d20 |-> c, e_rs |-> d, narrator |-> n ] :
          b \in PlayerDamageRolls(session, pl, a),
          d \in EnemyDamageRolls(session, pl, c),
          n \in narrators }
      : c \in EnemyD20(session, pl) } : a \in PlayerD20(session, pl) } : pl \in plans }
    \cup { [ NoInput EXCEPT !.planner_fails = TRUE ] }

\* ------------------------------------------------------------------------
\* load_session / save_session (app/engine/session.py)
\* ------------------------------------------------------------------------

\* load_session raises when the file is absent (FileNotFoundError) or does
\* not hold a complete JSON document (JSONDecodeError)
LoadFails == file_state # "complete"

\* the outcome of a handler whose load_session raised
LoadFailure(op) ==
  [ ok |-> FALSE, session |-> session_file, response |-> Failed(op, "load") ]

\* the damage the saved round adds to the sum of the player's hits
DealtAfter(response) ==
  IF response.op = "fight" /\ response.phase = "committed"
       /\ response.player_attack.made /\ response.player_attack.is_hit
    THEN [ dealt EXCEPT ![response.enemy_name] = @ + response.player_attack.damage_dealt ]
    ELSE dealt

\* save_session as one step: the whole document is replaced
save_session(before, r) ==
  /\ session_file' = r.session
  /\ file_state' = "complete"
  /\ dealt' = DealtAfter(r.response)
  /\ appended' = appended + Len(r.session.chat_history) - Len(before.chat_history)

\* Finish with the save in a finally block: once loaded, the session object
\* is written as the handler left it, whether or not the handler raised
FinishSavesOnError(before, r) ==
  /\ last' = r.response
  /\ IF r.ok \/ r.response.phase # "load"
       THEN save_session(before, r)
       ELSE UNCHANGED << session_file, file_state, dealt, appended >>

\* a handler that ran on the loaded session `before` ends: with its save
\* if it got that far, with nothing written if it raised
Finish(before, r) ==
  /\ last' = r.response
  /\ IF r.ok THEN save_session(before, r)
             ELSE UNCHANGED << session_file, file_state, dealt, appended >>

\* ------------------------------------------------------------------------
\* Spec: one action per request handler
\* ------------------------------------------------------------------------

Workers == {1, 2}

\* what a worker thread holds: the session object it loaded, the object as
\* its handler left it, and the handler's response
NoOutcome ==
  [ before |-> NoSession, session |-> NoSession, response |-> Failed("none", "none") ]

\* no session has been created and no request made
EngineInit ==
  /\ file_state = "absent"
  /\ session_file = NoSession
  /\ last = Failed("none", "none")
  /\ turns_done = 0
  /\ rounds_done = 0
  /\ queries_done = 0
  /\ dice = NoCall
  /\ dealt = [ n \in EnemyNames |-> 0 ]
  /\ appended = 0
  /\ pc = [ w \in Workers |-> "idle" ]
  /\ local = [ w \in Workers |-> NoOutcome ]

Init ==
  /\ EngineInit
  /\ combat_file = AbsentState
  /\ reply = NoReply
  /\ graph = << >>
  /\ graph_reply = NoGraphCall

\* no request is being answered
Quiet == last.op = "none" /\ \A w \in Workers : pc[w] = "idle"

\* POST /sessions/create: a new session file for the chosen character
CreateSession ==
  /\ Quiet
  /\ file_state = "absent"
  /\ \E story_id \in Stories, character_idx \in 0..Len(Characters) :
       LET r == create_session(story_id, character_idx)
       IN  /\ last' = IF r.ok THEN Returned("create", "committed", None)
                      ELSE Failed("create", "character")
           /\ IF r.ok
                THEN session_file' = r.session /\ file_state' = "complete"
                ELSE UNCHANGED << session_file, file_state >>
  /\ UNCHANGED << turns_done, rounds_done, dealt, appended, pc, local >>
  /\ UNCHANGED << queries_done, dice, ledger_vars, graph_vars >>

\* POST /sessions/{id}/action
ProcessTurn ==
  /\ Quiet
  /\ RequestsDone < MaxRequests
  /\ turns_done' = turns_done + 1
  /\ IF LoadFails
       THEN Finish(session_file, LoadFailure("turn"))
       ELSE \E llm \in TurnAnswers :
              Finish(session_file, process_turn(session_file, llm))
  /\ UNCHANGED << rounds_done, pc, local >>
  /\ UNCHANGED << queries_done, dice, ledger_vars, graph_vars >>

\* POST /sessions/{id}/fight
ProcessFightRound ==
  /\ Quiet
  /\ RequestsDone < MaxRequests
  /\ rounds_done' = rounds_done + 1
  /\ IF LoadFails
       THEN Finish(session_file, LoadFailure("fight"))
       ELSE \E inp \in RoundInputs(session_file, Plans, Narrators) :
              Finish(session_file, process_fight_round(session_file, inp))
  /\ UNCHANGED << turns_done, pc, local >>
  /\ UNCHANGED << queries_done, dice, ledger_vars, graph_vars >>

\* what the rules/lore assistant can answer; a call that raises is turned
\* into an "Error: ..." answer by the handler
QueryAnswers == { << "answer" >>, << "Error:", "catalog" >> }

\* POST /sessions/{id}/query
ProcessQuery ==
  /\ Quiet
  /\ RequestsDone < MaxRequests
  /\ queries_done' = queries_done + 1
  /\ IF LoadFails
       THEN Finish(session_file, LoadFailure("query"))
       ELSE \E answer_text \in QueryAnswers :
              Finish(session_file, process_query(session_file, answer_text))
  /\ UNCHANGED << turns_done, rounds_done, pc, local, dice, ledger_vars, graph_vars >>

\* the route hands the handler's response (or its error) to the caller
Respond ==
  /\ last.op # "none"
  /\ \A w \in Workers : pc[w] = "idle"
  /\ last' = Failed("none", "none")
  /\ UNCHANGED << file_state, session_file, turns_done, rounds_done, dealt, appended,
                  pc, local >>
  /\ UNCHANGED << queries_done, dice, ledger_vars, graph_vars >>

Next == CreateSession \/ ProcessTurn \/ ProcessQuery \/ ProcessFightRound \/ Respond

Spec == Init /\ [][Next]_vars

\* ------------------------------------------------------------------------
\* SpecSteps: POST .../fight handled by worker threads.  The routes are
\* plain functions, so the server runs them in a thread pool; neither the
\* handler nor the session manager takes a lock.
\* ------------------------------------------------------------------------

\* the plans the concurrent rounds are given
StepPlans ==
  { [ player_action |-> [ kind |-> "attack", attack_name |-> "Axe" ],
      enemy_action |-> [ kind |-> "attack", action_name |-> "Rock" ],
      combat_state |-> [ should_end |-> FALSE, end_reason |-> None ] ],
    EmptyPlan }

\* a worker takes a request and runs load_session
Load(w) ==
  /\ last.op = "none"
  /\ pc[w] = "idle"
  /\ RequestsDone < MaxRequests
  /\ rounds_done' = rounds_done + 1
  /\ IF LoadFails
       THEN UNCHANGED << pc, local >>
       ELSE /\ pc' = [ pc EXCEPT ![w] = "loaded" ]
            /\ local' = [ local EXCEPT ![w] = [ NoOutcome EXCEPT !.before = session_file,
                                                                 !.session = session_file ] ]
  /\ UNCHANGED << file_state, session_file, last, turns_done, dealt, appended >>
  /\ UNCHANGED << queries_done, dice, ledger_vars, graph_vars >>

\* the worker's round has run with outcome r; if it got to save_session,
\* open(path, "w") empties the file
Handled(w, r) ==
  IF r.ok
    THEN /\ pc' = [ pc EXCEPT ![w] = "writing" ]
         /\ local' = [ local EXCEPT ![w] = [ before |-> local[w].before,
                                             session |-> r.session,
                                             response |-> r.response ] ]
         /\ file_state' = "truncated"
         /\ session_file' = NoSession
    ELSE /\ pc' = [ pc EXCEPT ![w] = "idle" ]
         /\ local' = [ local EXCEPT ![w] = NoOutcome ]
         /\ UNCHANGED << file_state, session_file >>

\* the worker runs the round on its own session object
Handle(w) ==
  /\ pc[w] = "loaded"
  /\ \E inp \in RoundInputs(local[w].before, StepPlans, {"plain"}) :
       Handled(w, process_fight_round(local[w].before, inp))
  /\ UNCHANGED << last, turns_done, rounds_done, dealt, appended >>
  /\ UNCHANGED << queries_done, dice, ledger_vars, graph_vars >>

\* f.write and close: the worker's document goes to the file.  When another
\* worker wrote the file after this worker opened it, the two writes start
\* at offset 0 of the same file and the result is this worker's document
\* or, when it is the shorter one, its text followed by the rest of the other
Write(w) ==
  /\ pc[w] = "writing"
  /\ \/ /\ session_file' = local[w].session
        /\ file_state' = "complete"
     \/ /\ file_state = "complete"
        /\ session_file' = NoSession
        /\ file_state' = "truncated"
  /\ dealt' = DealtAfter(local[w].response)
  /\ appended' = appended + Len(local[w].session.chat_history)
                           - Len(local[w].before.chat_history)
  /\ pc' = [ pc EXCEPT ![w] = "idle" ]
  /\ local' = [ local EXCEPT ![w] = NoOutcome ]
  /\ UNCHANGED << last, turns_done, rounds_done >>
  /\ UNCHANGED << queries_done, dice, ledger_vars, graph_vars >>

\* the process dies while a worker is inside save_session; the requests in
\* flight are gone and the file stays as it is
Crash ==
  /\ \E w \in Workers : pc[w] = "writing"
  /\ pc' = [ w \in Workers |-> "idle" ]
  /\ local' = [ w \in Workers |-> NoOutcome ]
  /\ last' = Failed("crash", "save")
  /\ UNCHANGED << file_state, session_file, turns_done, rounds_done, dealt, appended >>
  /\ UNCHANGED << queries_done, dice, ledger_vars, graph_vars >>

NextSteps ==
  \/ CreateSession
  \/ ProcessTurn
  \/ \E w \in Workers : Load(w)
  \/ \E w \in Workers : Handle(w)
  \/ \E w \in Workers : Write(w)
  \/ Crash
  \/ Respond

SpecSteps == Init /\ [][NextSteps]_vars

\* ------------------------------------------------------------------------
\* SpecDice: the dice roller and the attack resolver called on their own
\* ------------------------------------------------------------------------

engine_vars == << file_state, session_file, last, turns_done, rounds_done, queries_done,
                 dealt, appended, pc, local >>

\* the characters the enumerated expressions are made of
DiceAlphabet == { "0", "1", "2", "d", "D", "+", "-", " ", "a" }

\* "2d6-1" with and without spaces around the '-'
SpacedMinus ==
  { << "2", "d", "6", "-", "1" >>,
    << "2", "d", "6", " ", "-", "1" >>,
    << "2", "d", "6", "-", " ", "1" >>,
    << "2", "d", "6", " ", "-", " ", "1" >> }

\* the examples of the docstring of roll_dice, and two texts with letters
NamedExpressions ==
  { << "1", "d", "2", "0" >>,
    << "d", "2", "0", " ", "+", " ", "5" >>,
    << "2", "D", "6", "+", "1", "D", "4", "+", "3" >>,
    << "1", "d", "7", " ", "2", "d", "1", "0" >>,
    << "+", "2", "d", "8", " ", "-", "1" >>,
    << "a", "b", "c" >>,
    << "1", "d", "6", "+", "a", "b", "c" >> }

\* the expressions roll_dice is called with
Expressions ==
  UNION { [ 1..n -> DiceAlphabet ] : n \in 0..MaxExprLen }
    \cup NamedExpressions \cup SpacedMinus

\* the armor classes resolve_attack is called with
ArmorClasses == 1 .. 30

\* what the caller of a function gets: its result, or nothing but the error
Outcome(r) == IF r.ok THEN r ELSE [ ok |-> FALSE ]

\* roll_dice(expr)
RollDice ==
  /\ dice.op = "none"
  /\ \E expr \in Expressions :
       \E rs \in AllRolls(ParseTerms(expr)) :
         dice' = [ op |-> "roll_dice", expr |-> expr,
                   result |-> Outcome(RollText(expr, rs)) ]
  /\ UNCHANGED << engine_vars, ledger_vars, graph_vars >>

\* the damage expressions resolve_attack is called with
DamageExpressions == StoryExpressions \cup { "2d6+3" }

\* resolve_attack(..., attack_bonus, ..., target_ac, damage_dice); rolled
\* keeps the fall of the damage dice when the damage was rolled
ResolveAttack ==
  /\ dice.op = "none"
  /\ \E attack_bonus \in Bonuses, target_ac \in ArmorClasses, d20 \in 1..20 :
       \E damage_dice \in DamageExpressions :
         \E rs \in AllRolls(DiceTerms(damage_dice)) :
           dice' = [ op |-> "resolve_attack", attack_bonus |-> attack_bonus,
                     target_ac |-> target_ac, d20 |-> d20,
                     damage_dice |-> damage_dice,
                     rolled |-> IF ToHit(attack_bonus, target_ac, d20).is_hit
                                  THEN rs ELSE << >>,
                     result |-> Outcome(resolve_attack(attack_bonus, target_ac,
                                                       damage_dice, d20, rs)) ]
  /\ UNCHANGED << engine_vars, ledger_vars, graph_vars >>

\* the damage expressions of the repeated call
RepeatedExpressions == { "6", "1d4+14" }

\* resolve_attack called twice with the same arguments: the function takes
\* no seed and calls roll_dice without one, so every call draws its dice
\* from random.SystemRandom() and the two falls are unrelated
ResolveAttackTwice ==
  /\ dice.op = "none"
  /\ \E attack_bonus \in Bonuses, target_ac \in ArmorClasses :
       \E damage_dice \in RepeatedExpressions :
         \E d20_1 \in DieFaces(20), d20_2 \in DieFaces(20) :
           \E rs_1 \in AllRolls(DiceTerms(damage_dice)),
              rs_2 \in AllRolls(DiceTerms(damage_dice)) :
             dice' = [ op |-> "resolve_attack_twice",
                       attack_bonus |-> attack_bonus, target_ac |-> target_ac,
                       damage_dice |-> damage_dice,
                       first  |-> Outcome(resolve_attack(attack_bonus, target_ac,
                                                         damage_dice, d20_1, rs_1)),
                       second |-> Outcome(resolve_attack(attack_bonus, target_ac,
                                                         damage_dice, d20_2, rs_2)) ]
  /\ UNCHANGED << engine_vars, ledger_vars, graph_vars >>

NextDice == RollDice \/ ResolveAttack \/ ResolveAttackTwice

SpecDice == Init /\ [][NextDice]_vars

\* ------------------------------------------------------------------------
\* SpecLedger: the operations of the combat ledger called one after another
\* ------------------------------------------------------------------------

Prone == << "p", "r", "o", "n", "e" >>

\* the conditions the operations are called with
ConditionTexts == { Prone, << " ", "P", "r", "o", "n", "e", " " >>, << "h", "e", "x" >> }

\* an ogre as the ledger stores it
OgreActor(hp, temp_hp, conditions) ==
  [ present |-> TRUE, name |-> "Ogre", max_hp |-> 10, hp |-> hp, temp_hp |-> temp_hp,
    conditions |-> conditions, armor_class |-> << 12 >>, extra |-> None ]

\* what the file holds when the first operation is called: nothing, text
\* that is no JSON, or an actor; temp HP is set by no operation of the
\* module, a record with temp HP is written by another tool or by hand
InitialStates ==
  { AbsentState, CorruptState,
    SaveState([ NoActors EXCEPT !["ogre"] = OgreActor(10, 4, << >>) ]),
    SaveState([ NoActors EXCEPT !["ogre"] = OgreActor(3, 0, << Prone >>) ]) }

InitLedger ==
  /\ EngineInit
  /\ combat_file \in InitialStates
  /\ reply = NoReply
  /\ graph = << >>
  /\ graph_reply = NoGraphCall

\* the arguments upsert_actor is called with
UpsertArgs ==
  { [ NoArgs EXCEPT !.name = "Ogre", !.max_hp = 10, !.armor_class = << 12 >> ],
    [ NoArgs EXCEPT !.name = "Ogre", !.max_hp = 5, !.armor_class = << 12 >> ],
    [ NoArgs EXCEPT !.name = "Ogre Chief", !.max_hp = 10, !.extra = "boss" ] }

DamageAmounts == { -1, 3, 6, 12 }

HealArgs ==
  { [ NoArgs EXCEPT !.amount = 3 ],
    [ NoArgs EXCEPT !.amount = 20 ],
    [ NoArgs EXCEPT !.amount = 20, !.allow_overheal = TRUE ] }

\* an operation loads the file, answers r, and writes the file if it got
\* as far as _save_state
LedgerCall(op, actor_id, args, r) ==
  /\ combat_file' = IF r.saved THEN SaveState(r.actors) ELSE combat_file
  /\ reply' = [ calls |-> reply.calls + 1, op |-> op, actor_id |-> actor_id,
                args |-> args, error |-> r.error, before |-> combat_file,
                result |-> r.result,
                overhealed |-> reply.overhealed
                                 \/ (op = "heal_actor" /\ args.allow_overheal) ]
  /\ UNCHANGED << engine_vars, dice, graph_vars >>

UpsertActor ==
  /\ reply.calls < MaxLedgerCalls
  /\ \E actor_id \in ActorIds, a \in UpsertArgs :
       LedgerCall("upsert_actor", actor_id, a,
                  upsert_actor(LoadState(combat_file), actor_id, a.name, a.max_hp,
                               a.armor_class, a.extra))

GetActor ==
  /\ reply.calls < MaxLedgerCalls
  /\ \E actor_id \in ActorIds :
       LedgerCall("get_actor", actor_id, NoArgs, get_actor(LoadState(combat_file), actor_id))

ApplyDamage ==
  /\ reply.calls < MaxLedgerCalls
  /\ \E actor_id \in ActorIds, amount \in DamageAmounts :
       LedgerCall("apply_damage", actor_id, [ NoArgs EXCEPT !.amount = amount ],
                  apply_damage(LoadState(combat_file), actor_id, amount))

HealActor ==
  /\ reply.calls < MaxLedgerCalls
  /\ \E actor_id \in ActorIds, a \in HealArgs :
       LedgerCall("heal_actor", actor_id, a,
                  heal_actor(LoadState(combat_file), actor_id, a.amount, a.allow_overheal))

AddCondition ==
  /\ reply.calls < MaxLedgerCalls
  /\ \E actor_id \in ActorIds, condition \in ConditionTexts :
       LedgerCall("add_condition", actor_id, [ NoArgs EXCEPT !.condition = condition ],
                  add_condition(LoadState(combat_file), actor_id, condition))

RemoveCondition ==
  /\ reply.calls < MaxLedgerCalls
  /\ \E actor_id \in ActorIds, condition \in ConditionTexts :
       LedgerCall("remove_condition", actor_id, [ NoArgs EXCEPT !.condition = condition ],
                  remove_condition(LoadState(combat_file), actor_id, condition))

ResetCombatState ==
  /\ reply.calls < MaxLedgerCalls
  /\ LedgerCall("reset_combat_state", None, NoArgs, reset_combat_state)

\* load_session of a session id: FileNotFoundError when there is no such
\* file, an error of json.load when the file holds no document
LoadSession ==
  /\ reply.calls < MaxLedgerCalls
  /\ reply' = [ reply EXCEPT !.calls = @ + 1, !.op = "load_session", !.actor_id = None,
                             !.args = NoArgs, !.error = LoadFails,
                             !.before = combat_file, !.result = NoActor ]
  /\ UNCHANGED << engine_vars, dice, combat_file, graph_vars >>

NextLedger ==
  \/ UpsertActor
  \/ GetActor
  \/ ApplyDamage
  \/ HealActor
  \/ AddCondition
  \/ RemoveCondition
  \/ ResetCombatState
  \/ LoadSession

SpecLedger == InitLedger /\ [][NextLedger]_vars

\* ------------------------------------------------------------------------
\* SpecLedgerSteps: two threads call the ledger at the same time.  An
\* operation is _load_state, the change made on the loaded dict, and
\* _save_state of that dict; the module takes no lock.
\* ------------------------------------------------------------------------

\* a second actor as the ledger stores it
WispActor ==
  [ present |-> TRUE, name |-> "Wisp", max_hp |-> 8, hp |-> 5, temp_hp |-> 0,
    conditions |-> << >>, armor_class |-> << 13 >>, extra |-> None ]

\* what the file holds when the two calls are made: both actors
SharedStates ==
  { SaveState([ NoActors EXCEPT !["ogre"] = OgreActor(10, 4, << >>),
                                !["wisp"] = WispActor ]),
    SaveState([ NoActors EXCEPT !["ogre"] = OgreActor(3, 0, << Prone >>),
                                !["wisp"] = WispActor ]) }

InitLedgerSteps ==
  /\ EngineInit
  /\ combat_file \in SharedStates
  /\ reply = NoReply
  /\ graph = << >>
  /\ graph_reply = NoGraphCall

\* the calls a thread can make on an actor
ConcurrentCalls ==
  { [ op |-> "apply_damage", args |-> [ NoArgs EXCEPT !.amount = a ] ] :
      a \in DamageAmounts }
  \cup { [ op |-> "heal_actor", args |-> a ] : a \in HealArgs }
  \cup { [ op |-> o, args |-> [ NoArgs EXCEPT !.condition = c ] ] :
           o \in { "add_condition", "remove_condition" }, c \in ConditionTexts }

\* the body of the called operation on the state it loaded
Operate(op, actors, actor_id, args) ==
  CASE op = "apply_damage" -> apply_damage(actors, actor_id, args.amount)
    [] op = "heal_actor" -> heal_actor(actors, actor_id, args.amount, args.allow_overheal)
    [] op = "add_condition" -> add_condition(actors, actor_id, args.condition)
    [] OTHER -> remove_condition(actors, actor_id, args.condition)

\* a thread enters an operation and runs _load_state
LedgerLoad(w) ==
  /\ pc[w] = "idle"
  /\ \E c \in ConcurrentCalls, actor_id \in ActorIds :
       local' = [ local EXCEPT ![w] = [ op |-> c.op, actor_id |-> actor_id,
                                        args |-> c.args,
                                        actors |-> LoadState(combat_file),
                                        answer |-> ActorNotFound(NoActors) ] ]
  /\ pc' = [ pc EXCEPT ![w] = "loaded" ]
  /\ UNCHANGED << file_state, session_file, last, turns_done, rounds_done, queries_done,
                  dealt, appended >>
  /\ UNCHANGED << dice, ledger_vars, graph_vars >>

\* the thread changes the dict it loaded and runs _save_state
LedgerSave(w) ==
  /\ pc[w] = "loaded"
  /\ combat_file' =
       IF Operate(local[w].op, local[w].actors, local[w].actor_id, local[w].args).saved
         THEN SaveState(Operate(local[w].op, local[w].actors, local[w].actor_id,
                                local[w].args).actors)
         ELSE combat_file
  /\ local' = [ local EXCEPT ![w].answer =
                  Operate(local[w].op, local[w].actors, local[w].actor_id,
                          local[w].args) ]
  /\ pc' = [ pc EXCEPT ![w] = "done" ]
  /\ UNCHANGED << file_state, session_file, last, turns_done, rounds_done, queries_done,
                  dealt, appended >>
  /\ UNCHANGED << dice, reply, graph_vars >>

NextLedgerSteps ==
  \/ \E w \in Workers : LedgerLoad(w)
  \/ \E w \in Workers : LedgerSave(w)

SpecLedgerSteps == InitLedgerSteps /\ [][NextLedgerSteps]_vars

\* ------------------------------------------------------------------------
\* SpecGraph: batches of scene records loaded into a StoryGraph
\* ------------------------------------------------------------------------

SceneIds == { "s1", "s2" }

\* the edge lists of the scene records: none, an edge to an existing or a
\* missing scene, an edge without a target
EdgeLists ==
  { << >>, << [ to |-> Given("s2") ] >>, << [ to |-> Given("ghost") ] >>,
    << [ to |-> Given("s1") ] >>,
    << [ to |-> Given("ghost") ], [ to |-> Given("s2") ], [ to |-> Given("ghost") ] >>,
    << [ to |-> Given("s1") ], [ to |-> Absent ] >> }

\* the scene records: with or without an id; the key "edges" is one that
\* add_scene_from_dict does not read
SceneRecords ==
  { [ id |-> id, next |-> next, edges |-> << >> ] :
      id \in { Given(scene_id) : scene_id \in SceneIds } \cup { Absent },
      next \in EdgeLists }

\* the texts add_scenes_from_json_list is called with: no JSON, a number,
\* one scene object, a list of scene objects
JsonDocuments ==
  { [ kind |-> "invalid", data |-> << >> ], [ kind |-> "number", data |-> << >> ] }
    \cup { [ kind |-> "object", data |-> << data >> ] : data \in SceneRecords }
    \cup { [ kind |-> "list", data |-> data ] :
             data \in UNION { [ 1..n -> SceneRecords ] : n \in 0..MaxBatch } }

\* the graph the batch is loaded into: a new one, or one that holds a scene
InitialGraphs ==
  { << >>, << [ id |-> "s1", edges |-> << [ to |-> "s2" ] >> ] >> }

InitGraph ==
  /\ EngineInit
  /\ combat_file = AbsentState
  /\ reply = NoReply
  /\ graph \in InitialGraphs
  /\ graph_reply = NoGraphCall

\* graph.add_scenes_from_json_list(json_str): what was added before a
\* record raised stays in self.nodes
AddScenesFromJsonList ==
  /\ graph_reply.op = "none"
  /\ \E doc \in JsonDocuments :
       /\ graph' = add_scenes_from_json_list(graph, doc).nodes
       /\ graph_reply' = [ op |-> "add_scenes_from_json_list", doc |-> doc,
                           error |-> add_scenes_from_json_list(graph, doc).error,
                           before |-> graph ]
  /\ UNCHANGED << engine_vars, dice, ledger_vars >>

\* a method is called on the graph a batch was loaded into
Loaded == graph_reply.op = "add_scenes_from_json_list"

\* graph.validate_graph()
ValidateGraph ==
  /\ Loaded
  /\ graph_reply' = [ op |-> "validate_graph", error |-> FALSE, before |-> graph,
                      warnings |-> validate_graph(graph) ]
  /\ UNCHANGED << graph, engine_vars, dice, ledger_vars >>

\* graph.check_is_dag()
CheckIsDag ==
  /\ Loaded
  /\ graph_reply' = [ op |-> "check_is_dag", error |-> FALSE, before |-> graph,
                      is_dag |-> check_is_dag(graph) ]
  /\ UNCHANGED << graph, engine_vars, dice, ledger_vars >>

\* the records of graph.to_dict() fed one by one to add_scene_from_dict of
\* a new StoryGraph
ExportAndLoad ==
  /\ Loaded
  /\ graph_reply' = [ op |-> "export_and_load", before |-> graph,
                      error |-> AddScenes(<< >>, to_dict(graph)).error,
                      rebuilt |-> AddScenes(<< >>, to_dict(graph)).nodes ]
  /\ UNCHANGED << graph, engine_vars, dice, ledger_vars >>

NextGraph == AddScenesFromJsonList \/ ValidateGraph \/ CheckIsDag \/ ExportAndLoad

SpecGraph == InitGraph /\ [][NextGraph]_vars

\* ------------------------------------------------------------------------
\* The LangGraph round (app/engine/agents/combat.py): the nodes of
\* combat_graph as operators on the CombatAgentState
\* ------------------------------------------------------------------------

\* next((a for a in entries if a["name"] == name), None): index of the
\* first entry with that name, 0 for None
FirstByName(entries, name) ==
  LET hits == { i \in 1..Len(entries) : entries[i].name = name }
  IN  IF name = None \/ hits = {} THEN 0
      ELSE CHOOSE i \in hits : \A j \in hits : i <= j

\* state.get("round_summary") of a state the simulator has not filled
NoSummary ==
  [ present |-> FALSE,
    player |-> [ hp_before |-> 0, hp_after |-> 0 ],
    enemy |-> [ name |-> None, hp_before |-> 0, hp_after |-> 0 ],
    results |-> [ player |-> NoAttack, enemy |-> NoAttack ] ]

\* the plan planner_node makes without the planner when the enemy's
\* derived HP is 0: {"combat_state": {"should_end": True, ...}}
EnemyDeadPlan ==
  [ EmptyPlan EXCEPT !.combat_state = [ should_end |-> TRUE, end_reason |-> "enemy_dead" ] ]

\* the dice of a round in which nothing is rolled
NoDice == [ p_d20 |-> 0, p_rs |-> << >>, e_d20 |-> 0, e_rs |-> << >> ]

\* the CombatAgentState combat_graph is invoked with.  before keeps the
\* session as load_combat_context read it and inp what planner, dice and
\* narrator supplied to the run.
EntryState ==
  [ before |-> NoSession, inp |-> NoInput,
    player_data |-> [ name |-> None, hp |-> 0, ac |-> 0, attacks |-> << >> ],
    enemy_data |-> [ name |-> None, hp |-> 0, max_hp |-> 0, ac |-> 0, actions |-> << >> ],
    combat_plan |-> EmptyPlan, round_summary |-> NoSummary, mechanics_log |-> << >>,
    final_narrative |-> << >>, active_mode |-> None ]

\* load_combat_context: the player and the first monster of the node; a
\* node without monster gives the enemy "Enemy" with the default numbers
load_combat_context(state, session) ==
  LET player == session.players[1]
      enemies == Monsters(session.current_node_id)
      enemy_name == IF Len(enemies) = 0 THEN "Enemy" ELSE enemies[1].name
      enemy_stats == IF Len(enemies) = 0 THEN NoStats ELSE enemies[1].stats
      enemy_max_hp == EnemyMaxHp(enemy_stats)
  IN  [ state EXCEPT
          !.before = session,
          !.player_data = [ name |-> player.name, hp |-> player.current_hp,
                            ac |-> player.character_sheet.ac,
                            attacks |-> player.character_sheet.attacks ],
          !.enemy_data = [ name |-> enemy_name,
                           hp |-> Max0(enemy_max_hp - DamageTaken(session, enemy_name)),
                           max_hp |-> enemy_max_hp,
                           ac |-> EnemyAc(enemy_stats),
                           actions |-> enemy_stats.actions ] ]

\* planner_node: no planner call for an enemy at 0 HP; an answer that is
\* no JSON gives the plan {}
planner_node(state, planner_fails, plan) ==
  IF state.enemy_data.hp <= 0
    THEN [ ok |-> TRUE,
           state |-> [ state EXCEPT !.combat_plan = EnemyDeadPlan,
                                    !.active_mode = "action" ] ]
  ELSE IF planner_fails
    THEN [ ok |-> FALSE, state |-> state ]
  ELSE [ ok |-> TRUE,
         state |-> [ state EXCEPT !.combat_plan = plan, !.inp.plan = plan ] ]

\* the player's attack simulator_node resolves: 0 for none
GraphPlayerAttackIndex(player, player_action) ==
  IF player_action.kind \in {"attack", "cast_spell"}
    THEN FirstByName(player.attacks, player_action.attack_name)
    ELSE 0

\* the enemy action simulator_node resolves, for an enemy left with
\* current_e_hp after the player's attack: the named action, else the
\* first action of the list, if it has an attack bonus
GraphEnemyAttackIndex(enemy, enemy_action, current_e_hp) ==
  LET named == FirstByName(enemy.actions, enemy_action.action_name)
      found == IF named # 0 THEN named
               ELSE IF Len(enemy.actions) > 0 THEN 1 ELSE 0
  IN  IF current_e_hp > 0 /\ enemy_action.kind = "attack" /\ found # 0
           /\ enemy.actions[found].has_bonus
        THEN found ELSE 0

\* the summary simulator_node hands on: both hp_after are
\* max(0, hp - damage taken), whatever the sign of the damage
RoundSummary(player, enemy, p_dmg_taken, e_dmg_taken, p_result, e_result) ==
  [ present |-> TRUE,
    player |-> [ hp_before |-> player.hp, hp_after |-> Max0(player.hp - p_dmg_taken) ],
    enemy |-> [ name |-> enemy.name, hp_before |-> enemy.hp,
                hp_after |-> Max0(enemy.hp - e_dmg_taken) ],
    results |-> [ player |-> p_result, enemy |-> e_result ] ]

\* the second half of simulator_node: the enemy's attack and the summary
simulate_enemy(state, rolls, p_idx, p_res, e_dmg_taken) ==
  LET player == state.player_data
      enemy == state.enemy_data
      e_idx == GraphEnemyAttackIndex(enemy, state.combat_plan.enemy_action,
                                     enemy.hp - e_dmg_taken)
      found_act == enemy.actions[e_idx]
      e_res == resolve_attack(found_act.attack_bonus, player.ac, found_act.damage_dice,
                              rolls.e_d20, rolls.e_rs)
      p_dmg_taken == IF e_idx # 0 /\ e_res.is_hit THEN e_res.damage_dealt ELSE 0
  IN  IF e_idx # 0 /\ (found_act.damage_dice = None \/ ~e_res.ok)
        THEN [ ok |-> FALSE, state |-> state ]
        ELSE [ ok |-> TRUE,
               state |->
                 [ state EXCEPT
                     !.inp = [ @ EXCEPT !.p_d20 = rolls.p_d20, !.p_rs = rolls.p_rs,
                                        !.e_d20 = rolls.e_d20, !.e_rs = rolls.e_rs ],
                     !.round_summary =
                        RoundSummary(player, enemy, p_dmg_taken, e_dmg_taken,
                                     IF p_idx # 0
                                       THEN AttackMade(player.attacks[p_idx].name, p_res)
                                       ELSE NoAttack,
                                     IF e_idx # 0
                                       THEN AttackMade(found_act.name, e_res)
                                       ELSE NoAttack),
                     !.mechanics_log =
                        (IF p_idx # 0 THEN << p_res.log >> ELSE << >>)
                          \o (IF e_idx # 0 THEN << e_res.log >> ELSE << >>) ] ]

\* simulator_node: nothing for the plan {}; else the player's attack, the
\* enemy's attack if the enemy is still above 0 HP, and the summary
simulator_node(state, rolls) ==
  LET player == state.player_data
      p_idx == GraphPlayerAttackIndex(player, state.combat_plan.player_action)
      found_atk == player.attacks[p_idx]
      p_res == resolve_attack(found_atk.bonus, state.enemy_data.ac, found_atk.damage,
                              rolls.p_d20, rolls.p_rs)
  IN  IF state.combat_plan = EmptyPlan
        THEN [ ok |-> TRUE,
               state |-> [ state EXCEPT
                             !.inp = [ @ EXCEPT !.p_d20 = rolls.p_d20, !.p_rs = rolls.p_rs,
                                                !.e_d20 = rolls.e_d20,
                                                !.e_rs = rolls.e_rs ] ] ]
      ELSE IF p_idx # 0 /\ ~p_res.ok
        THEN [ ok |-> FALSE, state |-> state ]
      ELSE simulate_enemy(state, rolls, p_idx, p_res,
                          IF p_idx # 0 /\ p_res.is_hit THEN p_res.damage_dealt ELSE 0)

\* narrator_node: without a summary no narrator is called; with one, the
\* mode is "action" when either side's hp_after is 0
narrator_node(state, narrator) ==
  LET summary == state.round_summary
  IN  IF ~summary.present
        THEN IF state.combat_plan.combat_state.end_reason = "enemy_dead"
               THEN [ ok |-> TRUE,
                      state |-> [ state EXCEPT
                                    !.final_narrative = << state.enemy_data.name,
                                                           "defeated_msg" >>,
                                    !.active_mode = "action" ] ]
               ELSE [ ok |-> TRUE,
                      state |-> [ state EXCEPT
                                    !.final_narrative = << "Combat logic error." >>,
                                    !.active_mode = "fight" ] ]
      ELSE IF narrator = "fails"
        THEN [ ok |-> FALSE, state |-> state ]
      ELSE [ ok |-> TRUE,
             state |-> [ state EXCEPT
                           !.inp.narrator = narrator,
                           !.final_narrative = << "narration" >>,
                           !.active_mode =
                              IF summary.player.hp_after <= 0 \/ summary.enemy.hp_after <= 0
                                THEN "action" ELSE "fight" ] ]

\* update_session on the session it loaded: the player's HP becomes
\* hp_after, the enemy's total grows by hp_before - hp_after, the history
\* gets the round's entries
update_session(session, state) ==
  LET summary == state.round_summary
      damage_this_turn == summary.enemy.hp_before - summary.enemy.hp_after
      new_total_damage == DamageTaken(session, summary.enemy.name) + damage_this_turn
      updated == IF summary.present
                   THEN [ SetPlayerHp(session, summary.player.hp_after)
                            EXCEPT !.enemy_states =
                              SetDamageTaken(session.enemy_states, summary.enemy.name,
                                             new_total_damage) ]
                   ELSE session
  IN  [ updated EXCEPT !.chat_history =
          @ \o << Msg("user", << "[Fight]", "player input" >>) >>
            \o (IF state.mechanics_log # << >>
                  THEN << Msg("data", state.mechanics_log) >> ELSE << >>)
            \o << Msg("assistant", state.final_narrative) >> ]

\* workflow.add_edge with an edge from the narrator back to the planner
workflow_edges_replan ==
  [ load_context |-> "planner", planner |-> "simulator", simulator |-> "narrator",
    narrator |-> "planner", update_session |-> "END" ]

\* workflow.add_edge: the node that runs after each node
workflow_edges ==
  [ load_context |-> "planner", planner |-> "simulator", simulator |-> "narrator",
    narrator |-> "update_session", update_session |-> "END" ]

\* workflow.set_entry_point
entry_point == "load_context"

\* ------------------------------------------------------------------------
\* SpecCombatGraph: combat_graph invoked on the session, one node per
\* step.  pc[w] is the node the run of worker w is about to execute and
\* local[w] its CombatAgentState; an exception in a node ends the run.
\* ------------------------------------------------------------------------

\* the plans the runs are given
GraphPlans ==
  { pl \in Plans :
      \/ /\ pl.player_action.attack_name = "Axe"
         /\ pl.enemy_action.action_name = "Rock"
         /\ pl.combat_state.end_reason # "stalemate"
      \/ pl.player_action.attack_name = "Curse"
      \/ pl.enemy_action.action_name = "Hex" }
  \cup { EmptyPlan }

\* how the dice of a round on this session with this plan can fall: for
\* the player's attack, and for the attack of the node's monster
GraphDice(session, plan) ==
  IF HasEnemy(session) /\ ~ShortCircuits(session)
    THEN UNION { UNION {
           { [ p_d20 |-> a, p_rs |-> b, e_d20 |-> c, e_rs |-> d ] :
               b \in PlayerDamageRolls(session, plan, a),
               d \in EnemyDamageRolls(session, plan, c) }
           : c \in EnemyD20(session, plan) } : a \in PlayerD20(session, plan) }
  ELSE IF HasEnemy(session)
    THEN { NoDice }
  ELSE LET idx == PlayerAttackIndex(session.players[1], plan.player_action)
           atk == session.players[1].character_sheet.attacks[idx]
       IN  UNION {
             { [ NoDice EXCEPT !.p_d20 = a, !.p_rs = b ] :
                 b \in IF idx # 0 /\ ToHit(atk.bonus, DefaultEnemyAc, a).is_hit
                         THEN AllRolls(DiceTerms(atk.damage)) ELSE { << >> } }
             : a \in PlayerD20(session, plan) }

\* the node of worker w raised: the run is over, nothing is written
Raise(w) ==
  /\ pc' = [ pc EXCEPT ![w] = "idle" ]
  /\ local' = [ local EXCEPT ![w] = NoOutcome ]

\* the node of worker w returned the state s: the run moves along the edge
Advance(w, node, s) ==
  /\ pc' = [ pc EXCEPT ![w] = workflow_edges[node] ]
  /\ local' = [ local EXCEPT ![w] = s ]

\* combat_graph.invoke: the run starts at the entry point.  The runs are
\* made one after another, each by the first worker of the pool.
Invoke(w) ==
  /\ Quiet
  /\ \A v \in Workers : w <= v
  /\ file_state # "absent"
  /\ RequestsDone < MaxRequests
  /\ rounds_done' = rounds_done + 1
  /\ pc' = [ pc EXCEPT ![w] = entry_point ]
  /\ local' = [ local EXCEPT ![w] = EntryState ]
  /\ UNCHANGED << file_state, session_file, last, turns_done, dealt, appended >>
  /\ UNCHANGED << queries_done, dice, ledger_vars, graph_vars >>

LoadContext(w) ==
  /\ pc[w] = "load_context"
  /\ IF LoadFails
       THEN Raise(w)
       ELSE Advance(w, "load_context", load_combat_context(local[w], session_file))
  /\ UNCHANGED << file_state, session_file, last, turns_done, rounds_done, dealt, appended >>
  /\ UNCHANGED << queries_done, dice, ledger_vars, graph_vars >>

PlannerNode(w) ==
  /\ pc[w] = "planner"
  /\ \E planner_fails \in BOOLEAN, plan \in GraphPlans :
       LET r == planner_node(local[w], planner_fails, plan)
       IN  IF r.ok THEN Advance(w, "planner", r.state) ELSE Raise(w)
  /\ UNCHANGED << file_state, session_file, last, turns_done, rounds_done, dealt, appended >>
  /\ UNCHANGED << queries_done, dice, ledger_vars, graph_vars >>

SimulatorNode(w) ==
  /\ pc[w] = "simulator"
  /\ \E d \in GraphDice(local[w].before, local[w].combat_plan) :
       LET r == simulator_node(local[w], d)
       IN  IF r.ok THEN Advance(w, "simulator", r.state) ELSE Raise(w)
  /\ UNCHANGED << file_state, session_file, last, turns_done, rounds_done, dealt, appended >>
  /\ UNCHANGED << queries_done, dice, ledger_vars, graph_vars >>

NarratorNode(w) ==
  /\ pc[w] = "narrator"
  /\ \E narrator \in Narrators :
       LET r == narrator_node(local[w], narrator)
       IN  IF r.ok THEN Advance(w, "narrator", r.state) ELSE Raise(w)
  /\ UNCHANGED << file_state, session_file, last, turns_done, rounds_done, dealt, appended >>
  /\ UNCHANGED << queries_done, dice, ledger_vars, graph_vars >>

\* update_session loads the session again, changes it and saves it
UpdateSession(w) ==
  /\ pc[w] = "update_session"
  /\ IF LoadFails
       THEN Raise(w) /\ UNCHANGED << file_state, session_file, appended >>
       ELSE /\ Advance(w, "update_session", local[w])
            /\ session_file' = update_session(session_file, local[w])
            /\ file_state' = "complete"
            /\ appended' = appended
                 + Len(update_session(session_file, local[w]).chat_history)
                 - Len(session_file.chat_history)
  /\ UNCHANGED << last, turns_done, rounds_done, dealt >>
  /\ UNCHANGED << queries_done, dice, ledger_vars, graph_vars >>

\* the run reached END: invoke returns the final state to its caller
Return(w) ==
  /\ pc[w] = "END"
  /\ pc' = [ pc EXCEPT ![w] = "idle" ]
  /\ local' = [ local EXCEPT ![w] = NoOutcome ]
  /\ UNCHANGED << file_state, session_file, last, turns_done, rounds_done, dealt, appended >>
  /\ UNCHANGED << queries_done, dice, ledger_vars, graph_vars >>

NextCombatGraph ==
  \/ CreateSession
  \/ ProcessTurn
  \/ Respond
  \/ \E w \in Workers : Invoke(w)
  \/ \E w \in Workers : LoadContext(w)
  \/ \E w \in Workers : PlannerNode(w)
  \/ \E w \in Workers : SimulatorNode(w)
  \/ \E w \in Workers : NarratorNode(w)
  \/ \E w \in Workers : UpdateSession(w)
  \/ \E w \in Workers : Return(w)

SpecCombatGraph == Init /\ [][NextCombatGraph]_vars

\* ------------------------------------------------------------------------
\* Properties
\* ------------------------------------------------------------------------

\* C1: when combat rounds run concurrently on one session no update is
\* lost: once every round has returned, the persisted history holds every
\* entry the rounds (and turns) appended and the persisted damage of each
\* enemy is the sum of the damage of every hit, as in a serial execution.
\* (The rounds of SpecSteps only use attacks with positive damage.)
C1_NoLostUpdate ==
  (file_state = "complete" /\ \A w \in Workers : pc[w] = "idle")
    => /\ Len(session_file.chat_history) = appended
       /\ \A n \in EnemyNames : DamageTaken(session_file, n) = dealt[n]

\* C2: after a crash during save_session the session file holds a complete
\* document (the previous or the new one), never an empty or partial one.
C2_CrashLeavesCompleteRecord ==
  last.op = "crash" => file_state = "complete"

\* C3: a combat round is all-or-nothing on the persisted session: a round
\* that fails (load, planner, attack resolution, narrator) leaves the file
\* as it was; a round that commits persists, in its one save, the player's
\* HP after the damage it returned, the enemy's cumulative damage raised by
\* the damage of the player's hit, and its history entries (user entry,
\* mechanics entry exactly when an attack was resolved, narration entry).
C3_RoundAllOrNothing ==
  [][ (last.op = "none" /\ last'.op = "fight") =>
        LET h  == session_file.chat_history
            h2 == session_file'.chat_history
            r  == last'
            hit_damage == IF r.player_attack.made /\ r.player_attack.is_hit
                            THEN r.player_attack.damage_dealt ELSE 0
            attacked == r.player_attack.made \/ r.enemy_attack.made
        IN  /\ r.status = "error"
                 => session_file' = session_file /\ file_state' = file_state
            /\ (r.status = "ok" /\ r.phase = "committed")
                 => /\ file_state' = "complete"
                    /\ session_file'.players[1].current_hp
                         = Max0(session_file.players[1].current_hp - Max0(r.damage_taken))
                    /\ DamageTaken(session_file', r.enemy_name)
                         = DamageTaken(session_file, r.enemy_name) + Max0(hit_damage)
                    /\ Len(h2) = Len(h) + (IF attacked THEN 3 ELSE 2)
                    /\ SubSeq(h2, 1, Len(h)) = h
                    /\ h2[Len(h) + 1].role = "user"
                    /\ attacked => h2[Len(h) + 2].role = "data"
                    /\ h2[Len(h2)].role = "assistant" ]_vars

\* a round failed at the narrator, after its attacks were resolved
C3_Witness ==
  /\ last.op = "fight" /\ last.status = "error" /\ last.phase = "narrator"
  /\ file_state = "complete"

\* C4: between requests, the HP derived for every monster of the story
\* (max HP minus stored cumulative damage, clamped at 0) equals max HP minus
\* the sum of the damage dealt by every player hit on that enemy name,
\* clamped at 0; the session stores one damage_taken number per enemy name.
C4_DerivedHpIsMaxMinusDamageDealt ==
  (last.op = "none" /\ file_state = "complete") =>
    /\ \A n \in DOMAIN StoryNodes : \A i \in 1..Len(Monsters(n)) :
         LET e == Monsters(n)[i]
         IN  Max0(EnemyMaxHp(e.stats) - DamageTaken(session_file, e.name))
               = Max0(EnemyMaxHp(e.stats) - dealt[e.name])
    /\ \A n \in DOMAIN session_file.enemy_states :
         DOMAIN session_file.enemy_states[n] = {"damage_taken"}

\* C5: in a committed round whose player attack brought the enemy from
\* above 0 to 0 HP, no enemy attack is resolved and the player takes no
\* damage.
C5_DefeatedEnemyDoesNotAttack ==
  (last.op = "fight" /\ last.phase = "committed"
     /\ last.enemy_hp_before > 0 /\ last.enemy_hp_after = 0)
    => ~last.enemy_attack.made /\ last.damage_taken = 0

C8_UnknownPlayerAttackIsNoOp ==
  [][ (last.op = "none" /\ last'.op = "fight"
         /\ last'.phase \in {"player_attack", "enemy_attack", "narrator", "committed"}
         /\ LET attacks == session_file.players[1].character_sheet.attacks
            IN  \A i \in 1..Len(attacks) :
                  attacks[i].name # last'.player_action.attack_name)
      => /\ ~last'.player_attack.made
         /\ session_file'.enemy_states = session_file.enemy_states
         /\ last'.phase # "player_attack"
         /\ last'.phase = "committed" => last'.status = "ok" ]_vars

\* a round committed whose plan named the unknown attack "Fireball", while
\* the enemy's attack was resolved
C8_Witness ==
  /\ last.op = "fight" /\ last.phase = "committed" /\ last.status = "ok"
  /\ last.player_action.kind = "attack"
  /\ last.player_action.attack_name = "Fireball"
  /\ last.enemy_attack.made

TurnCompleted == last.op = "none" /\ last'.op = "turn" /\ last'.status = "ok"

\* C11: a transition to a node id that is absent from the story graph is
\* rejected with an error reported to the caller, and the session's
\* current_node_id is left unchanged.
C11_AbsentTargetIsAnError ==
  [][ (last.op = "none" /\ last'.op = "turn" /\ ~LoadFails) =>
        \A llm \in TurnAnswers :
          ( /\ llm.transition_to_id # None
            /\ llm.transition_to_id \notin DOMAIN StoryNodesOf(session_file.story_id)
            /\ last' = process_turn(session_file, llm).response )
          => /\ last'.status = "error"
             /\ session_file'.current_node_id = session_file.current_node_id ]_vars

\* C12: pacing is advisory.  A completed turn whose transition_to_id names
\* an existing node moves the pointer there whatever the turn counter is
\* relative to the current node's min_turns; a completed turn leaves the
\* pointer where it was only when the id is not set or names no node.
C12_PacingIsAdvisory ==
  [][ TurnCompleted =>
        LET t     == last'.transition_to_id
            nodes == StoryNodesOf(session_file.story_id)
        IN  /\ t \in DOMAIN nodes => session_file'.current_node_id = t
            /\ session_file'.current_node_id # t
                 => (t = None \/ t \notin DOMAIN nodes) ]_vars

\* a turn left a node before its min_turns were spent there
C12_Witness ==
  /\ last.op = "turn" /\ last.status = "ok" /\ last.transition_to_id = "n3"
  /\ session_file.current_node_id = "n3"
  /\ turns_done = 1
  /\ StoryNodes["n1"].min_turns = 2

\* C13: structured combat happens only in combat nodes: a round in a
\* session whose current node has another type resolves no attack and
\* deals no damage to the player or to an enemy.
C13_CombatOnlyInCombatNodes ==
  ( /\ last.op = "fight" /\ last.status = "ok"
    /\ session_file.current_node_id \in DOMAIN StoryNodes
    /\ StoryNodes[session_file.current_node_id].type # "combat" )
  => /\ ~last.player_attack.made
     /\ ~last.enemy_attack.made
     /\ last.damage_taken = 0
     /\ last.enemy_hp_after = last.enemy_hp_before

C15_PointerIsANode ==
  file_state = "complete"
    => session_file.current_node_id \in DOMAIN StoryNodesOf(session_file.story_id)

\* C16: the player's current HP stays within 0 and the character's max
\* HP, and a combat round never raises it.
C16_PlayerHpBounds ==
  [][ /\ file_state' = "complete"
        => \A i \in 1..Len(session_file'.players) :
             LET p == session_file'.players[i]
             IN  0 <= p.current_hp /\ p.current_hp <= p.character_sheet.hp_max
      /\ (last.op = "none" /\ last'.op = "fight" /\ file_state = "complete"
            /\ file_state' = "complete")
        => session_file'.players[1].current_hp <= session_file.players[1].current_hp
    ]_vars

\* a round whose enemy attack hit with a negative damage left the player's
\* HP as it was, and a round took the player to 0
C16_Witness ==
  /\ last.op = "fight" /\ last.status = "ok"
  /\ last.enemy_attack.made /\ last.enemy_attack.is_hit
  /\ last.enemy_attack.damage_dealt < 0
  /\ session_file.players[1].current_hp = 12


\* the call made is roll_dice and it returned a result
Rolled == dice.op = "roll_dice" /\ dice.result.ok

\* C17: for every expression roll_dice accepts, the total is the sum of the
\* signed subtotals of the returned terms, each dice term holds exactly
\* num outcomes, and every outcome lies in 1..sides.
C17_TotalIsSumOfSignedSubtotals ==
  Rolled =>
    LET terms == dice.result.terms
        signed(t) == IF t.dice THEN t.sign * SumSeq(t.rolls) ELSE t.sign * t.flat
    IN  /\ dice.result.total = SumSeq([ i \in 1..Len(terms) |-> signed(terms[i]) ])
        /\ \A i \in 1..Len(terms) :
             /\ terms[i].subtotal = signed(terms[i])
             /\ terms[i].sign \in {1, -1}
             /\ terms[i].dice =>
                  /\ Len(terms[i].rolls) = terms[i].num
                  /\ \A k \in 1..Len(terms[i].rolls) :
                       terms[i].rolls[k] \in 1..terms[i].sides

\* "+2d8 -1" was rolled: two dice showing 8 and a subtracted 1
C17_Witness ==
  /\ Rolled
  /\ dice.expr = << "+", "2", "d", "8", " ", "-", "1" >>
  /\ Len(dice.result.terms) = 2
  /\ dice.result.terms[1].rolls = << 8, 8 >>
  /\ dice.result.terms[2].subtotal = -1
  /\ dice.result.total = 15

\* C18: roll_dice fails and returns no result when the expression holds no
\* parsable term: every term needs a digit, so this covers the empty text,
\* a text of whitespace only, "abc" and every other text without a digit.
C18_NoTermIsAnError ==
  ( /\ dice.op = "roll_dice"
    /\ \A i \in 1..Len(dice.expr) : ~IsDigit(dice.expr[i]) )
  => dice.result = [ ok |-> FALSE ]

\* roll_dice was called with "abc" and failed
C18_Witness ==
  /\ dice.op = "roll_dice"
  /\ dice.expr = << "a", "b", "c" >>
  /\ ~dice.result.ok

\* C19: roll_dice rejects the whole expression when any term of it is
\* malformed: a text with a character that belongs to no term (a letter
\* other than d) is answered with an error, not with a partial roll.
C19_MalformedTermRejectsAll ==
  ( /\ dice.op = "roll_dice"
    /\ \E i \in 1..Len(dice.expr) :
         ~IsDigit(dice.expr[i]) /\ dice.expr[i] \notin {"d", "D", "+", "-", " "} )
  => ~dice.result.ok

\* the call made is resolve_attack and it returned a result
Resolved == dice.op = "resolve_attack" /\ dice.result.ok

\* C20: resolve_attack reports a hit exactly when the d20 face is 20, or
\* the face is neither 20 nor 1 and face + attack bonus >= target AC.
C20_HitRule ==
  Resolved =>
    ( dice.result.is_hit
        <=> \/ dice.d20 = 20
            \/ /\ dice.d20 # 1
               /\ dice.d20 + dice.attack_bonus >= dice.target_ac )

\* a face of 1 missed although the total reaches the AC, and a face of 20
\* hit although the total does not
C20_Witness ==
  /\ Resolved
  /\ \/ dice.d20 = 1 /\ 1 + dice.attack_bonus >= dice.target_ac /\ ~dice.result.is_hit
     \/ dice.d20 = 20 /\ 20 + dice.attack_bonus < dice.target_ac /\ dice.result.is_hit


\* C21: on a critical hit the damage dealt is exactly twice the total of
\* the damage expression rolled once (flat terms doubled too, no die
\* added); on any other hit it is that total.
C21_CritDoublesTheRolledTotal ==
  ( Resolved /\ dice.result.is_hit ) =>
    LET terms == DiceTerms(dice.damage_dice)
        rolled_total ==
          SumSeq([ i \in 1..Len(terms) |->
                     IF terms[i].dice THEN terms[i].sign * SumSeq(dice.rolled[i])
                     ELSE terms[i].sign * terms[i].flat ])
    IN  /\ \A i \in 1..Len(terms) :
             terms[i].dice => Len(dice.rolled[i]) = terms[i].num
        /\ dice.result.damage_dealt =
             IF dice.d20 = 20 THEN 2 * rolled_total ELSE rolled_total

\* a critical hit with "2d6+3": two dice showing 6 and 6, damage 30
C21_Witness ==
  /\ Resolved
  /\ dice.d20 = 20
  /\ dice.damage_dice = "2d6+3"
  /\ dice.rolled = << << 6, 6 >>, << >> >>
  /\ dice.result.damage_dealt = 30

\* C22: the damage dealt reported by resolve_attack is never negative, for
\* every damage expression, and is 0 whenever the attack misses.
C22_DamageIsNeverNegative ==
  Resolved =>
    /\ dice.result.damage_dealt >= 0
    /\ ~dice.result.is_hit => dice.result.damage_dealt = 0

\* C23: two calls of resolve_attack with the same arguments return the same
\* hit flag, the same damage dealt and the same log.
C23_SameArgumentsSameResult ==
  dice.op = "resolve_attack_twice" => dice.first = dice.second


\* the operation that was called found its actor and saved the state
Answered(op) == reply.op = op /\ ~reply.error

\* C24: apply_damage on an existing actor consumes temp HP before base HP
\* and floors HP at 0: with damage d >= 0, temp' = max(0, temp - d) and
\* hp' = max(0, hp - max(0, d - temp)); a negative amount changes nothing.
C24_TempHpSoaksDamageFirst ==
  Answered("apply_damage") =>
    LET before == reply.before.actors[reply.actor_id]
        after  == combat_file.actors[reply.actor_id]
        d      == reply.args.amount
        max0(x) == IF x > 0 THEN x ELSE 0
    IN  /\ reply.result = after
        /\ IF d >= 0
             THEN /\ after.temp_hp = max0(before.temp_hp - d)
                  /\ after.hp = max0(before.hp - max0(d - before.temp_hp))
                  /\ after = [ before EXCEPT !.temp_hp = after.temp_hp, !.hp = after.hp ]
             ELSE after = before

\* HP 10, temp HP 4, damage 6 ended at HP 8, temp HP 0
C24_Witness ==
  /\ Answered("apply_damage")
  /\ reply.args.amount = 6
  /\ reply.before.actors[reply.actor_id].hp = 10
  /\ reply.before.actors[reply.actor_id].temp_hp = 4
  /\ combat_file.actors[reply.actor_id].hp = 8
  /\ combat_file.actors[reply.actor_id].temp_hp = 0

\* C25: as long as no heal with over-heal was made, every actor record of
\* the ledger satisfies 0 <= hp <= max_hp and temp_hp >= 0.
C25_HpWithinBounds ==
  ~reply.overhealed =>
    \A actor_id \in ActorIds :
      LET actor == combat_file.actors[actor_id]
      IN  actor.present =>
            /\ 0 <= actor.hp
            /\ actor.hp <= actor.max_hp
            /\ actor.temp_hp >= 0

\* C26: upsert_actor on an id that exists sets name, max HP and armor class
\* (and extra when given) and leaves HP, temp HP and conditions as they
\* were; on a new id it creates the actor with HP = max HP, temp HP 0 and
\* no conditions; no other actor's record changes.
C26_UpsertKeepsTheRunningState ==
  reply.op = "upsert_actor" =>
    LET before == reply.before.actors[reply.actor_id]
        after  == combat_file.actors[reply.actor_id]
    IN  /\ ~reply.error
        /\ combat_file.status = "ok"
        /\ after.present
        /\ after.name = reply.args.name
        /\ after.max_hp = reply.args.max_hp
        /\ after.armor_class = reply.args.armor_class
        /\ reply.args.extra # None => after.extra = reply.args.extra
        /\ IF before.present
             THEN /\ after.hp = before.hp
                  /\ after.temp_hp = before.temp_hp
                  /\ after.conditions = before.conditions
             ELSE /\ after.hp = after.max_hp
                  /\ after.temp_hp = 0
                  /\ after.conditions = << >>
        /\ \A other \in ActorIds \ { reply.actor_id } :
             combat_file.actors[other] = reply.before.actors[other]

\* the prone ogre with 3 of 10 HP was upserted with max HP 5 and extra
\* data: it still has 3 HP and is still prone
C26_Witness ==
  /\ reply.op = "upsert_actor"
  /\ reply.before.actors[reply.actor_id].present
  /\ reply.before.actors[reply.actor_id].hp = 3
  /\ reply.args.max_hp = 5
  /\ combat_file.actors[reply.actor_id].max_hp = 5
  /\ combat_file.actors[reply.actor_id].hp = 3
  /\ combat_file.actors[reply.actor_id].conditions = << Prone >>

\* the list holds no condition twice
NoDuplicate(conds) ==
  \A i, j \in 1..Len(conds) : conds[i] = conds[j] => i = j

\* this step is operation op on an actor that exists
Calls(op) == reply'.op = op /\ ~reply'.error /\ reply'.calls = reply.calls + 1

\* the conditions of the actor of this step, before and after it
ConditionsBefore == combat_file.actors[reply'.actor_id].conditions
ConditionsAfter == combat_file'.actors[reply'.actor_id].conditions

\* adding a present condition and removing an absent one change nothing,
\* and no list ever holds a condition twice
IdempotentConditions ==
  /\ ( Calls("add_condition") /\ combat_file.status = "ok"
       /\ Holds(ConditionsBefore, NormalCondition(reply'.args.condition)) )
     => ConditionsAfter = ConditionsBefore
  /\ ( Calls("remove_condition") /\ combat_file.status = "ok"
       /\ ~Holds(ConditionsBefore, NormalCondition(reply'.args.condition)) )
     => ConditionsAfter = ConditionsBefore
  /\ \A actor_id \in ActorIds : NoDuplicate(combat_file'.actors[actor_id].conditions)

\* this step removes from an actor the condition the step before added
RemovesWhatWasAdded ==
  /\ Answered("add_condition")
  /\ Calls("remove_condition")
  /\ reply'.actor_id = reply.actor_id
  /\ NormalCondition(reply'.args.condition) = NormalCondition(reply.args.condition)

\* C27 as stated: conditions behave as a set, and add followed by remove of
\* the same condition restores the list as it was before the add.
C27_AddThenRemoveRestores ==
  [][ /\ IdempotentConditions
      /\ RemovesWhatWasAdded
           => ConditionsAfter = reply.before.actors[reply.actor_id].conditions ]_vars

\* C27: conditions behave as a set: adding a condition already present
\* leaves the list unchanged, removing an absent condition leaves it
\* unchanged, no list holds a duplicate, and add followed by remove of a
\* condition that was absent before the add restores the previous list.
C27_ConditionsBehaveAsASet ==
  [][ /\ IdempotentConditions
      /\ ( /\ RemovesWhatWasAdded
           /\ ~Holds(reply.before.actors[reply.actor_id].conditions,
                     NormalCondition(reply.args.condition)) )
           => ConditionsAfter = reply.before.actors[reply.actor_id].conditions ]_vars

\* "hex" was added to the prone ogre and removed again: the list is the
\* one condition it held at the start
C27_Witness ==
  /\ Answered("remove_condition")
  /\ reply.calls = 2
  /\ reply.args.condition = << "h", "e", "x" >>
  /\ reply.before.actors[reply.actor_id].conditions = << Prone, << "h", "e", "x" >> >>
  /\ combat_file.actors[reply.actor_id].conditions = << Prone >>

\* the operations that answer "actor not found"
ActorOperations ==
  { "get_actor", "apply_damage", "heal_actor", "add_condition", "remove_condition" }

\* C28: an operation naming an unknown id reports the error and fabricates
\* nothing: get_actor, apply_damage, heal_actor, add_condition and
\* remove_condition on an unknown actor id return an error and leave the
\* ledger file as it was; load_session of a session that does not exist
\* fails and creates no session file.
C28_UnknownIdIsReported ==
  /\ ( reply.op \in ActorOperations /\ ~reply.before.actors[reply.actor_id].present )
     => ( reply.error /\ combat_file = reply.before )
  /\ ( reply.op = "load_session" )
     => ( reply.error /\ file_state = "absent" /\ session_file = NoSession
          /\ combat_file = reply.before )

\* apply_damage was called for the wisp on a ledger that holds the ogre only
C28_Witness ==
  /\ reply.op = "apply_damage"
  /\ reply.actor_id = "wisp"
  /\ reply.error
  /\ reply.before.status = "ok"
  /\ reply.before.actors["ogre"].present
  /\ combat_file = reply.before

\* C29: an operation that finds a ledger file it cannot decode answers with
\* an error and leaves the file as it is.
C29_UnreadableIsNotReplaced ==
  ( reply.op \in ActorOperations \cup { "upsert_actor" }
    /\ reply.before.status = "corrupt" )
  => ( reply.error /\ combat_file.status = "corrupt" )


\* C30: loading a batch of scene records is atomic: when
\* add_scenes_from_json_list fails, the graph holds none of the scenes of
\* the batch, it is as it was before the call.
C30_BatchIsAtomic ==
  ( graph_reply.op = "add_scenes_from_json_list" /\ graph_reply.error )
  => graph = graph_reply.before


\* the edges of the graph whose target is no node: (node, edge) positions
DanglingEdges(nodes) ==
  UNION { { << i, k >> : k \in { j \in 1..Len(nodes[i].edges) :
                                     ~HasNode(nodes, nodes[i].edges[j].to) } } :
          i \in 1..Len(nodes) }

\* C31: validate_graph never raises, returns exactly one warning for each
\* edge whose target id is not a node of the graph (an empty list when
\* every target exists), and does not modify the graph.
C31_OneWarningPerDanglingEdge ==
  graph_reply.op = "validate_graph" =>
    /\ ~graph_reply.error
    /\ graph = graph_reply.before
    /\ Len(graph_reply.warnings) = Cardinality(DanglingEdges(graph))
    /\ \A w \in 1..Len(graph_reply.warnings) :
         \E e \in DanglingEdges(graph) :
           /\ graph[e[1]].id = graph_reply.warnings[w].sid
           /\ graph[e[1]].edges[e[2]].to = graph_reply.warnings[w].to
    /\ \A e \in DanglingEdges(graph) :
         \E w \in 1..Len(graph_reply.warnings) :
           /\ graph[e[1]].id = graph_reply.warnings[w].sid
           /\ graph[e[1]].edges[e[2]].to = graph_reply.warnings[w].to

\* a node with two edges to the same missing scene and one edge to an
\* existing scene got two warnings
C31_Witness ==
  /\ graph_reply.op = "validate_graph"
  /\ Len(graph_reply.warnings) = 2
  /\ \E i \in 1..Len(graph) :
       /\ Len(graph[i].edges) = 3
       /\ HasNode(graph, graph[i].edges[2].to)

\* there is a closed walk of one or more edges among the nodes of the graph
HasCycle(nodes) ==
  \E n \in 1..Len(nodes) :
    \E walk \in [ 1..n -> 1..Len(nodes) ] :
      \A k \in 1..n :
        \E e \in 1..Len(nodes[walk[k]].edges) :
          nodes[walk[k]].edges[e].to = nodes[walk[IF k = n THEN 1 ELSE k + 1]].id

\* C34: check_is_dag returns True exactly when the graph has no directed
\* cycle among its existing nodes; edges to scenes that are no nodes are
\* ignored, a self-loop and any longer cycle are reported.
C34_DagIffNoCycle ==
  graph_reply.op = "check_is_dag" =>
    /\ graph_reply.is_dag <=> ~HasCycle(graph)
    /\ graph = graph_reply.before

\* a graph with the cycle s1 -> s2 -> s1 and no self-loop was reported
\* cyclic
C34_Witness ==
  /\ graph_reply.op = "check_is_dag"
  /\ ~graph_reply.is_dag
  /\ Len(graph) = 2
  /\ \A i \in 1..2 : Len(graph[i].edges) = 1 /\ graph[i].edges[1].to # graph[i].id

\* C39: the scene records of to_dict, fed to add_scene_from_dict on an
\* empty graph, rebuild a graph with the same node ids and, for every
\* node, the same outgoing edges.
C39_ExportThenLoadIsTheGraph ==
  graph_reply.op = "export_and_load" =>
    ( ~graph_reply.error /\ graph_reply.rebuilt = graph )


\* C36: each term's sign is honoured, also when spaces separate the '-'
\* from the term before or after it: "2d6 - 1", "2d6- 1" and "2d6 -1" give
\* the total of "2d6-1" for the same dice, the sum of the two dice minus 1.
C36_SpacedMinusIsSubtracted ==
  ( dice.op = "roll_dice" /\ dice.expr \in SpacedMinus ) =>
    /\ dice.result.ok
    /\ dice.result.total = SumSeq(dice.result.rolls[1]) - 1


C40_DefeatedPlayerCannotAct ==
  [][ ( /\ file_state = "complete"
        /\ session_file.players[1].current_hp = 0
        /\ last.op = "none"
        /\ last'.op = "fight" )
      => /\ ~last'.player_attack.made
         /\ \A n \in EnemyNames :
              DamageTaken(session_file', n) <= DamageTaken(session_file, n) ]_vars


\* ------------------------------------------------------------------------
\* The LangGraph round
\* ------------------------------------------------------------------------

\* the phases of a round in their order: load, plan, resolve, narrate,
\* commit; 0 for a worker without a run, 6 for a run that reached END
PhaseRank(p) ==
  CASE p = "idle" -> 0
    [] p = "load_context" -> 1
    [] p = "planner" -> 2
    [] p = "simulator" -> 3
    [] p = "narrator" -> 4
    [] p = "update_session" -> 5
    [] OTHER -> 6

C38_PipelinesAgree ==
  \A w \in Workers :
    (pc[w] = "END" /\ HasEnemy(local[w].before) /\ ~ShortCircuits(local[w].before))
      => LET r == process_fight_round(local[w].before, local[w].inp)
             name == local[w].enemy_data.name
         IN  r.ok => /\ session_file.players[1].current_hp
                          = r.session.players[1].current_hp
                     /\ DamageTaken(session_file, name) = DamageTaken(r.session, name)
                     /\ local[w].active_mode = r.response.active_mode


\* ------------------------------------------------------------------------
\* Concurrent ledger operations
\* ------------------------------------------------------------------------

\* C32: when two operations on two different actor ids ran concurrently
\* and both have returned, the stored ledger reflects both: each of the
\* two actors is stored as its operation left it.
C32_BothOperationsTakeEffect ==
  ( /\ \A w \in Workers : pc[w] = "done" /\ local[w].answer.saved
    /\ local[1].actor_id # local[2].actor_id )
  => \A w \in Workers :
       LoadState(combat_file)[local[w].actor_id] = local[w].answer.result

====
